---- MODULE Spec2Model ----
(***************************************************************************)
(* Model of the multi-store flower forecast manager                        *)
(* (MultiStoreForecastManager, src/script_4.py).                           *)
(*                                                                         *)
(* Units.  Python floats are modelled as exact decimals in fixed point:    *)
(*   seasonal, holiday, weekend multipliers and safety_stock_ratio in      *)
(*   tenths (12 is 1.2); weather_sensitivity and the weather multiplier in *)
(*   hundredths (25 is 0.25).  int(x) is truncation toward zero.           *)
(* A Python dict is a sequence of <<key, value>> entries in insertion      *)
(* order when the order is observable (the stores), a TLA+ function whose  *)
(* DOMAIN is the set of keys otherwise (a store's configuration).          *)
(* A date is the day number counted from 1 January 2026 (day 1).           *)
(***************************************************************************)
EXTENDS Integers, Sequences, FiniteSets, TLC

VARIABLES
    fs,             \* the files: path -> [kind, data]
    alive,          \* the managers that have been constructed
    config_path,    \* manager -> the path given to its constructor
    stores_config,  \* manager -> self.stores_config
    today,          \* the day datetime.now() falls on
    rng,            \* position of numpy's global generator in its stream
    adds,           \* successful registrations so far (bounds the model)
    last,           \* the last call and what it gave back to its caller
    trainer,        \* a FlowerForecastModelTrainer and its last call
    handler,        \* a FlowerForecastErrorHandler and its last call
    app             \* the Streamlit session: st.session_state and what is shown

\* The variables of the forecast managers and of their files.
manager_vars == <<fs, alive, config_path, stores_config, today, rng, adds, last>>

vars ==
    <<fs, alive, config_path, stores_config, today, rng, adds, last, trainer, handler,
      app>>

\* ------------------------------------------------------------------ bounds
MaxAdds == 1
MaxDays == 1
RngPeriod == 2

Managers == {1, 2}
Paths == {"stores_config.json", "custom_config.json"}
NoPath == ""

\* The days the model starts on: 13 Feb (Fri), 7 Mar (Sat), 20 Mar (Fri),
\* 31 Aug (Mon), 31 Dec (Thu) of 2026.
StartDays == {44, 66, 79, 243, 365}

\* ------------------------------------------------------------- arithmetic
Max(a, b) == IF a >= b THEN a ELSE b

\* Python int(n / d) for d > 0: truncation toward zero.
Trunc(n, d) == IF n >= 0 THEN n \div d ELSE -((-n) \div d)

\* ---------------------------------------------------------------- calendar
DaysInMonth == <<31, 28, 31, 30, 31, 30, 31, 31, 30, 31, 30, 31>>

RECURSIVE MonthFrom(_, _)
MonthFrom(doy, m) ==
    IF doy <= DaysInMonth[m] THEN m ELSE MonthFrom(doy - DaysInMonth[m], m + 1)

RECURSIVE DayFrom(_, _)
DayFrom(doy, m) ==
    IF doy <= DaysInMonth[m] THEN doy ELSE DayFrom(doy - DaysInMonth[m], m + 1)

DayOfYear(date) == ((date - 1) % 365) + 1
Month(date) == MonthFrom(DayOfYear(date), 1)
DayOfMonth(date) == DayFrom(DayOfYear(date), 1)
\* date.weekday(): Monday is 0; 1 January 2026 is a Thursday.
Weekday(date) == (date + 2) % 7
\* date.strftime('%m-%d') as the pair <<month, day>>.
MonthDay(date) == <<Month(date), DayOfMonth(date)>>

\* ------------------------------------------------------------ Python dicts
\* self.stores_config['stores'] is a sequence of entries [id, cfg]: a dict in
\* insertion order.
Keys(d) == {d[i].id : i \in 1..Len(d)}
IndexOf(d, k) == CHOOSE i \in 1..Len(d) : d[i].id = k
Get(d, k) == d[IndexOf(d, k)].cfg
\* The dict replaced by one holding only the new entry.
PutAlone(d, k, v) == <<[id |-> k, cfg |-> v]>>

\* d[k] = v: an existing key keeps its place, a new key goes last.
Put(d, k, v) ==
    IF k \in Keys(d)
    THEN [d EXCEPT ![IndexOf(d, k)] = [id |-> k, cfg |-> v]]
    ELSE Append(d, [id |-> k, cfg |-> v])

\* store_config.get(key, default)
GetOr(cfg, key, default) == IF key \in DOMAIN cfg THEN cfg[key] ELSE default

\* ------------------------------------------------------ the configuration
\* The list without its last field.
required_fields_short ==
    {"name", "address", "type", "size_category", "target_audience"}

required_fields ==
    {"name", "address", "type", "size_category", "target_audience",
     "avg_daily_visitors"}

default_values ==
    [seasonal_multipliers |-> [winter |-> 9, spring |-> 11, summer |-> 10, autumn |-> 10],
     holiday_multipliers |-> [WOMENS_DAY |-> 40, VALENTINES |-> 18, NAURYZ |-> 20],
     weather_sensitivity |-> 25,
     forecast_horizon_days |-> 7,
     safety_stock_ratio |-> 12,
     active |-> TRUE]

global_settings ==
    [model_retrain_frequency_days |-> 7,
     anomaly_detection_threshold |-> 25,
     min_historical_data_days |-> 30,
     max_forecast_horizon_days |-> 30,
     default_safety_stock_ratio |-> 12,
     currency |-> "KZT",
     timezone |-> "Asia/Almaty"]

CreateDefaultConfig ==
    [stores |-> <<
        [id |-> "almaty_1", cfg |->
            [name |-> "Almaty TSUM", address |-> "pr. Abylai khana, 62",
             type |-> "premium", size_category |-> "large",
             opening_hours |-> [start |-> "09:00", end |-> "22:00"],
             target_audience |-> "premium_customers", avg_daily_visitors |-> 200,
             seasonal_multipliers |->
                [winter |-> 8, spring |-> 12, summer |-> 10, autumn |-> 11],
             holiday_multipliers |->
                [WOMENS_DAY |-> 45, VALENTINES |-> 20, NAURYZ |-> 22],
             weather_sensitivity |-> 30, forecast_horizon_days |-> 14,
             safety_stock_ratio |-> 12, active |-> TRUE]],
        [id |-> "almaty_2", cfg |->
            [name |-> "Almaty Mega", address |-> "ul. Rozybakieva, 247a",
             type |-> "mass_market", size_category |-> "large",
             opening_hours |-> [start |-> "10:00", end |-> "22:00"],
             target_audience |-> "families", avg_daily_visitors |-> 350,
             seasonal_multipliers |->
                [winter |-> 9, spring |-> 13, summer |-> 11, autumn |-> 10],
             holiday_multipliers |->
                [WOMENS_DAY |-> 40, VALENTINES |-> 18, NAURYZ |-> 25],
             weather_sensitivity |-> 20, forecast_horizon_days |-> 7,
             safety_stock_ratio |-> 15, active |-> TRUE]],
        [id |-> "almaty_3", cfg |->
            [name |-> "Almaty Dostyk Plaza", address |-> "pr. Dostyk, 111",
             type |-> "premium", size_category |-> "medium",
             opening_hours |-> [start |-> "10:00", end |-> "21:00"],
             target_audience |-> "business_customers", avg_daily_visitors |-> 150,
             seasonal_multipliers |->
                [winter |-> 7, spring |-> 11, summer |-> 9, autumn |-> 12],
             holiday_multipliers |->
                [WOMENS_DAY |-> 38, VALENTINES |-> 22, NAURYZ |-> 18],
             weather_sensitivity |-> 40, forecast_horizon_days |-> 10,
             safety_stock_ratio |-> 13, active |-> TRUE]] >>,
     global_settings |-> global_settings]

\* A configuration file written by hand before the program first ran: its one
\* store has no 'active', 'weather_sensitivity', 'safety_stock_ratio' or
\* 'forecast_horizon_days' key, and a holiday table without NAURYZ.
HandWrittenConfig ==
    [stores |-> <<
        [id |-> "astana_1", cfg |->
            [name |-> "Astana Khan Shatyr", address |-> "pr. Turan, 37",
             type |-> "business", size_category |-> "small",
             target_audience |-> "business_customers", avg_daily_visitors |-> 90,
             seasonal_multipliers |->
                [winter |-> 10, spring |-> 10, summer |-> 10, autumn |-> 10],
             holiday_multipliers |-> [WOMENS_DAY |-> 30, VALENTINES |-> 15]]] >>,
     global_settings |-> global_settings]

\* ---- the store_config arguments add_new_store is called with
\* src/test_app.py:88-95
TestStore ==
    [name |-> "Almaty Test", address |-> "ul. Testovaya, 1",
     type |-> "mass_market", size_category |-> "medium",
     target_audience |-> "local_customers", avg_daily_visitors |-> 120]

\* src/script_4.py:458-465
EsentaiStore ==
    [name |-> "Almaty Esentai Mall", address |-> "pr. Al-Farabi, 77/8",
     type |-> "premium", size_category |-> "large",
     target_audience |-> "luxury_customers", avg_daily_visitors |-> 180]

\* Every optional field supplied; a closed store.
ClosedStore ==
    [name |-> "Almaty Closed", address |-> "ul. Abaya, 1",
     type |-> "business", size_category |-> "small",
     target_audience |-> "business_customers", avg_daily_visitors |-> 40,
     seasonal_multipliers |-> [winter |-> 5],
     holiday_multipliers |-> [NAURYZ |-> 30],
     weather_sensitivity |-> 10, forecast_horizon_days |-> 1,
     safety_stock_ratio |-> 10, active |-> FALSE]

\* Optional fields supplied with values add_new_store does not check:
\* a weather_sensitivity of 2.5 and a partial seasonal table.
WindyStore ==
    [name |-> "Almaty Kiosk", address |-> "ul. Satpaeva, 90",
     type |-> "business", size_category |-> "small",
     target_audience |-> "passers_by", avg_daily_visitors |-> 60,
     seasonal_multipliers |-> [spring |-> 10],
     weather_sensitivity |-> 250, forecast_horizon_days |-> 1,
     safety_stock_ratio |-> 10]

Without(cfg, field) == [k \in (DOMAIN cfg) \ {field} |-> cfg[k]]

ValidStoreConfigs == {TestStore, ClosedStore, WindyStore}
\* The script's configuration with one of its fields left out.
InvalidStoreConfigs == {Without(EsentaiStore, f) : f \in DOMAIN EsentaiStore}
EmptyDict == [k \in {} |-> 0]
\* The store_config argument: a dict, or None.
StoreConfigArgs ==
    {[isdict |-> TRUE, d |-> c] : c \in ValidStoreConfigs \cup InvalidStoreConfigs}
    \cup {[isdict |-> FALSE, d |-> EmptyDict]}

AddIds == {"almaty_1", "almaty_4"}
QueryIds == {"almaty_1", "almaty_2", "almaty_4", "astana_1", "nowhere"}

\* ----------------------------------------------------- the random source
\* numpy's global generator is a fixed stream read from an unknown position:
\* Stream(pos) is the pos-th raw output.
Stream(pos) == (pos * pos * 31 + pos * 7919 + 17) % 1009

\* np.random.randint(lo, hi): an integer of [lo, hi), hi excluded.
RandInt(lo, hi, pos) == lo + (Stream(pos) % (hi - lo))

\* np.random.uniform(-s, s) for s in hundredths, on the grid
\* -s, -0.8 s, ..., 0.8 s of [-s, s).
Uniform(s, pos) == Trunc(s * ((Stream(pos) % 10) - 5), 5)

\* ---------------------------------------------------- forecast generation
premium_skus ==
    <<"Roza_Premium_80sm", "Pion_import", "Orhideya_falenopsis",
      "Liliya_oriental", "Roza_David_Austin", "Gortenziya_krupnaya">>
mass_market_skus ==
    <<"Roza_standart_60sm", "Tulpan_standart", "Hrizantema_kust",
      "Gvozdika_standart", "Alstromeriya", "Gerbery_mix">>
business_skus ==
    <<"Roza_biznes_70sm", "Buket_korporativny", "Kompoziciya_ofis",
      "Roza_klassik", "Liliya_biznes", "Hrizantema_odnogol">>

StoreType(cfg) == GetOr(cfg, "type", "mass_market")

Skus(cfg) ==
    IF StoreType(cfg) = "premium" THEN premium_skus
    ELSE IF StoreType(cfg) = "mass_market" THEN mass_market_skus
    ELSE business_skus

base_demand_range(cfg) ==
    IF StoreType(cfg) = "premium" THEN <<15, 40>>
    ELSE IF StoreType(cfg) = "mass_market" THEN <<25, 60>>
    ELSE <<10, 35>>

\* March counted as a winter month.
_get_season_late_spring(date) ==
    LET month == Month(date) IN
    IF month \in {12, 1, 2, 3} THEN "winter"
    ELSE IF month \in {4, 5} THEN "spring"
    ELSE IF month \in {6, 7, 8} THEN "summer"
    ELSE "autumn"

_get_season(date) ==
    LET month == Month(date) IN
    IF month \in {12, 1, 2} THEN "winter"
    ELSE IF month \in {3, 4, 5} THEN "spring"
    ELSE IF month \in {6, 7, 8} THEN "summer"
    ELSE "autumn"

\* The holiday multiplier also applied on the day after the holiday.
_get_holiday_multiplier_spread(date, cfg) ==
    LET hm == cfg.holiday_multipliers
        md == MonthDay(date) IN
    IF md \in {<<3, 8>>, <<3, 9>>} THEN GetOr(hm, "WOMENS_DAY", 10)
    ELSE IF md \in {<<2, 14>>, <<2, 15>>} THEN GetOr(hm, "VALENTINES", 10)
    ELSE IF md \in {<<3, 21>>, <<3, 22>>} THEN GetOr(hm, "NAURYZ", 10)
    ELSE 10

\* holidays.get(date_str, 1.0), in tenths
_get_holiday_multiplier(date, cfg) ==
    LET hm == cfg.holiday_multipliers
        md == MonthDay(date) IN
    IF md = <<3, 8>> THEN GetOr(hm, "WOMENS_DAY", 10)
    ELSE IF md = <<2, 14>> THEN GetOr(hm, "VALENTINES", 10)
    ELSE IF md = <<3, 21>> THEN GetOr(hm, "NAURYZ", 10)
    ELSE 10

\* 1.0 + weather_impact, in hundredths
_get_weather_multiplier(cfg, pos) ==
    LET sensitivity == GetOr(cfg, "weather_sensitivity", 25) IN
    100 + Uniform(sensitivity, pos)

WeekendMult(date) == IF Weekday(date) \in {5, 6} THEN 13 ELSE 10

\* int(base * seasonal * weekend * holiday * weather)
FinalDemand(base, seasonal, weekend, holiday, weather) ==
    Trunc(base * seasonal * weekend * holiday * weather, 100000)

\* The purchase without max(0, .).
RecommendedPurchaseUnclamped(final_demand, ratio, current_stock) ==
    Trunc(final_demand * ratio - current_stock * 10, 10)

\* max(0, int(final_demand * safety_stock_ratio - current_stock))
RecommendedPurchase(final_demand, ratio, current_stock) ==
    Max(0, Trunc(final_demand * ratio - current_stock * 10, 10))

\* Both comparisons taken non-strict.
PriorityNonStrict(recommended_purchase, final_demand) ==
    IF recommended_purchase >= final_demand THEN "high"
    ELSE IF 2 * recommended_purchase >= final_demand THEN "medium"
    ELSE "low"

\* recommended_purchase > final_demand * 0.5 is 2 * recommended_purchase > final_demand
Priority(recommended_purchase, final_demand) ==
    IF recommended_purchase > final_demand THEN "high"
    ELSE IF 2 * recommended_purchase > final_demand THEN "medium"
    ELSE "low"

\* One pass of the inner loop: the row for day offset `day` and the i-th SKU.
\* The row's three draws are read at pos, pos + 1, pos + 2.
ForecastRow(store_id, cfg, now, day, i, pos) ==
    LET date == now + day
        base_demand == RandInt(base_demand_range(cfg)[1], base_demand_range(cfg)[2], pos)
        seasonal_mult == GetOr(cfg.seasonal_multipliers, _get_season(date), 10)
        weekend_mult == WeekendMult(date)
        holiday_mult == _get_holiday_multiplier(date, cfg)
        weather_mult == _get_weather_multiplier(cfg, pos + 1)
        final_demand ==
            FinalDemand(base_demand, seasonal_mult, weekend_mult, holiday_mult, weather_mult)
        current_stock == RandInt(0, 25, pos + 2)
        safety_stock_ratio == GetOr(cfg, "safety_stock_ratio", 12)
        recommended_purchase ==
            RecommendedPurchase(final_demand, safety_stock_ratio, current_stock)
    IN  [date |-> date, day |-> day, store_id |-> store_id, name |-> cfg.name,
         sku |-> Skus(cfg)[i],
         base_demand |-> base_demand, weekend_factor |-> weekend_mult,
         demand |-> final_demand, current_stock |-> current_stock,
         recommended_purchase |-> recommended_purchase,
         priority |-> Priority(recommended_purchase, final_demand),
         seasonal_factor |-> seasonal_mult, holiday_factor |-> holiday_mult,
         weather_factor |-> weather_mult]

DrawsPerRow == 3

\* The inner loop stopping one SKU short: `for sku in skus[:-1]`.
_generate_forecast_skipping_last_sku(store_id, cfg, forecast_days, now, pos) ==
    LET n == Len(Skus(cfg)) - 1
        count == Max(0, forecast_days) * n IN
    [k \in 1..count |->
        ForecastRow(store_id, cfg, now, (k - 1) \div n, ((k - 1) % n) + 1,
                    pos + DrawsPerRow * (k - 1))]

\* The rows appended by `for day in range(forecast_days): for sku in skus:`,
\* the generator being at position pos when the loop starts.
_generate_store_specific_forecast(store_id, cfg, forecast_days, now, pos) ==
    LET n == Len(Skus(cfg))
        count == Max(0, forecast_days) * n IN
    [k \in 1..count |->
        ForecastRow(store_id, cfg, now, (k - 1) \div n, ((k - 1) % n) + 1,
                    pos + DrawsPerRow * (k - 1))]

\* The active flag never looked at.
IsActiveIgnored(cfg) == TRUE

IsActive(cfg) == GetOr(cfg, "active", TRUE)

\* forecast_days is None
NoneDays == -1

\* get_store_forecast once the store is known to be registered: what is
\* raised ("" for nothing), the rows returned and the number of draws taken.
KnownStoreForecast(stores, store_id, forecast_days, now, pos) ==
    LET cfg == Get(stores, store_id)
        days == IF forecast_days = NoneDays
                THEN GetOr(cfg, "forecast_horizon_days", 7)
                ELSE forecast_days
    IN  IF ~IsActive(cfg)
        THEN [raised |-> "", rows |-> <<>>, draws |-> 0]
        ELSE IF days > 0 /\ "seasonal_multipliers" \notin DOMAIN cfg
        THEN [raised |-> "KeyError", rows |-> <<>>, draws |-> 1]
        ELSE LET rows == _generate_store_specific_forecast(store_id, cfg, days, now, pos)
             IN  [raised |-> "", rows |-> rows, draws |-> DrawsPerRow * Len(rows)]

\* A store_id that is no key of the registry is answered like a closed store.
StoreForecastNoRaise(stores, store_id, forecast_days, now, pos) ==
    IF store_id \notin Keys(stores)
    THEN [raised |-> "", rows |-> <<>>, draws |-> 0]
    ELSE KnownStoreForecast(stores, store_id, forecast_days, now, pos)

\* get_store_forecast on the registry `stores`.
StoreForecast(stores, store_id, forecast_days, now, pos) ==
    IF store_id \notin Keys(stores)
    THEN [raised |-> "ValueError", rows |-> <<>>, draws |-> 0]
    ELSE KnownStoreForecast(stores, store_id, forecast_days, now, pos)

\* get_network_forecast: the loop over self.stores_config['stores'] from its
\* i-th entry on, `acc` being network_forecast so far.
RECURSIVE NetworkForecastFrom(_, _, _, _, _, _)
NetworkForecastFrom(stores, i, forecast_days, now, pos, acc) ==
    IF i > Len(stores) THEN [raised |-> "", rows |-> acc, draws |-> pos]
    ELSE IF ~IsActive(stores[i].cfg)
    THEN NetworkForecastFrom(stores, i + 1, forecast_days, now, pos, acc)
    ELSE LET r == StoreForecast(stores, stores[i].id, forecast_days, now, pos) IN
         IF r.raised # ""
         THEN [raised |-> r.raised, rows |-> <<>>, draws |-> pos + r.draws]
         ELSE NetworkForecastFrom(stores, i + 1, forecast_days, now,
                                  pos + r.draws, acc \o r.rows)

\* The loop started at the second store of the registry.
NetworkForecastFromSecond(stores, forecast_days, now, pos) ==
    LET r == NetworkForecastFrom(stores, 2, forecast_days, now, pos, <<>>)
    IN  [r EXCEPT !.draws = r.draws - pos]

\* The result's draws field is the generator's position afterwards.
NetworkForecast(stores, forecast_days, now, pos) ==
    LET r == NetworkForecastFrom(stores, 1, forecast_days, now, pos, <<>>)
    IN  [r EXCEPT !.draws = r.draws - pos]

\* ------------------------------------------------------------ consolidation
\* The SKUs in the order Python sorts their names (groupby sorts its keys).
SortedSkus ==
    <<"Alstromeriya", "Buket_korporativny", "Gvozdika_standart", "Gerbery_mix",
      "Gortenziya_krupnaya", "Kompoziciya_ofis", "Liliya_biznes", "Liliya_oriental",
      "Orhideya_falenopsis", "Pion_import", "Roza_Premium_80sm", "Roza_David_Austin",
      "Roza_biznes_70sm", "Roza_klassik", "Roza_standart_60sm", "Tulpan_standart",
      "Hrizantema_kust", "Hrizantema_odnogol">>
SkuRank(sku) == CHOOSE i \in 1..Len(SortedSkus) : SortedSkus[i] = sku

\* rows[i].recommended_purchase summed over the row numbers in I
RECURSIVE SumRows(_, _)
SumRows(rows, I) ==
    IF I = {} THEN 0
    ELSE LET i == CHOOSE j \in I : TRUE
         IN  rows[i].recommended_purchase + SumRows(rows, I \ {i})

\* the recommended_purchase column of a set of groups, summed
RECURSIVE SumGroups(_)
SumGroups(G) ==
    IF G = {} THEN 0
    ELSE LET g == CHOOSE h \in G : TRUE
         IN  g.recommended_purchase + SumGroups(G \ {g})

\* forecast_df.groupby(['date', 'SKU']).agg(sum of purchase, count of store)
Grouped(rows) ==
    LET keys == {<<rows[i].date, rows[i].sku>> : i \in 1..Len(rows)}
        members(key) == {i \in 1..Len(rows) : <<rows[i].date, rows[i].sku>> = key}
    IN  {[date |-> key[1], sku |-> key[2],
          recommended_purchase |-> SumRows(rows, members(key)),
          store_count |-> Cardinality(members(key))] : key \in keys}

ConsolidationThreshold == 50

\* The filter left out: every group counts as high volume.
HighVolumeItemsUnfiltered(grouped) == grouped

\* grouped[grouped['recommended_purchase'] >= 50]
HighVolumeItems(grouped) ==
    {g \in grouped : g.recommended_purchase >= ConsolidationThreshold}

\* The first n groups of date_data in its own order (by SKU), whatever they
\* sum to.
RECURSIVE FirstN(_, _)
FirstN(n, date_data) ==
    IF n = 0 \/ date_data = {} THEN <<>>
    ELSE LET top == CHOOSE g \in date_data : \A h \in date_data :
                        SkuRank(g.sku) <= SkuRank(h.sku)
         IN  <<top>> \o FirstN(n - 1, date_data \ {top})

\* date_data.nlargest(n, 'recommended_purchase'): largest first, among equal
\* values the one that comes first in date_data (the lower SKU).
RECURSIVE NLargest(_, _)
NLargest(n, date_data) ==
    IF n = 0 \/ date_data = {} THEN <<>>
    ELSE LET top == CHOOSE g \in date_data : \A h \in date_data :
                        \/ g.recommended_purchase > h.recommended_purchase
                        \/ /\ g.recommended_purchase = h.recommended_purchase
                           /\ SkuRank(g.sku) <= SkuRank(h.sku)
         IN  <<top>> \o NLargest(n - 1, date_data \ {top})

TopN == 5

\* The volume and the savings taken from the largest group alone.
ConsolidationEntryOfLargest(date_data) ==
    LET total == NLargest(1, date_data)[1].recommended_purchase
    IN  [total_volume |-> total,
         top_items |-> NLargest(TopN, date_data),
         potential_savings |-> total * 5]

\* potential_savings in hundredths: total_volume * 0.05
ConsolidationEntry(date_data) ==
    LET total == SumGroups(date_data)
    IN  [total_volume |-> total,
         top_items |-> NLargest(TopN, date_data),
         potential_savings |-> total * 5]

\* get_consolidation_opportunities: date -> entry, for the dates that have a
\* high-volume group.  An empty DataFrame has no columns: groupby raises.
ConsolidationOpportunities(rows) ==
    IF Len(rows) = 0
    THEN [raised |-> "KeyError", result |-> [k \in {} |-> 0]]
    ELSE LET grouped == Grouped(rows)
             high_volume_items == HighVolumeItems(grouped)
             date_data(date) == {g \in high_volume_items : g.date = date}
             dates == {g.date : g \in grouped}
         IN  [raised |-> "",
              result |-> [date \in {d \in dates : date_data(d) # {}} |->
                             ConsolidationEntry(date_data(date))]]

\* ------------------------------------------------------------------ metrics
MetricsDraws == 5

\* get_performance_metrics: store_id "" stands for None (any falsy id).
PerformanceMetrics(stores, store_id) ==
    IF store_id # ""
    THEN [store_id |-> store_id,
          store_name |-> IF store_id \in Keys(stores)
                         THEN GetOr(Get(stores, store_id), "name", "unknown")
                         ELSE "unknown",
          total_stores |-> 0]
    ELSE [store_id |-> "",
          store_name |-> "",
          total_stores |-> Cardinality({i \in 1..Len(stores) : IsActive(stores[i].cfg)})]

\* --------------------------------------------------------------- the files
EmptyConfig == [stores |-> <<>>, global_settings |-> global_settings]
AbsentFile == [kind |-> "absent", data |-> EmptyConfig]
\* A file cut short by a failed write: not JSON.
PartialFile == [kind |-> "partial", data |-> EmptyConfig]
\* json.dump writes, and json.load reads back, the strings, numbers, booleans
\* and nested dicts of a configuration unchanged and in the same key order:
\* the file is modelled by the value its text denotes.
JsonFile(config) == [kind |-> "json", data |-> config]

\* _load_stores_config(config_path) on the files `files`: what is raised, the
\* configuration returned and the files afterwards.
_load_stores_config(files, path) ==
    IF files[path].kind = "json"
    THEN [raised |-> "", config |-> files[path].data, files |-> files]
    ELSE IF files[path].kind = "absent"
    THEN [raised |-> "", config |-> CreateDefaultConfig,
          files |-> [files EXCEPT ![path] = JsonFile(CreateDefaultConfig)]]
    ELSE [raised |-> "JSONDecodeError", config |-> EmptyConfig, files |-> files]

\* The file _save_config writes, whatever path the manager was given.
SavePath == "stores_config.json"

\* How the write in _save_config can end: done, open() fails (the file is
\* untouched), or the dump fails after open() has truncated the file.
IoOutcomes == {"ok", "open_fails", "write_fails"}

\* _save_config: the exception is logged, never raised.
_save_config(files, config, io) ==
    IF io = "ok" THEN [files EXCEPT ![SavePath] = JsonFile(config)]
    ELSE IF io = "open_fails" THEN files
    ELSE [files EXCEPT ![SavePath] = PartialFile]

\* ------------------------------------------------------ the model trainer
\* FlowerForecastModelTrainer (src/model_training.py).  A model_info keeps
\* what the calls read back: the algorithm, the accuracy and the sizes; the
\* random parameters and the mae and rmse are left out.  mape and accuracy
\* are in hundredths; training_date is the reading of a clock that goes on
\* by one at every training.
MaxTrainings == 2

SupportedAlgorithms ==
    {"linear_regression", "decision_tree", "random_forest", "neural_network"}

\* The algorithm arguments: two the trainer knows and one it does not.
AlgorithmArgs == {"linear_regression", "random_forest", "xgboost"}
\* algorithm=None
NoAlgorithm == ""

\* len(training_data) of the tables train_model is called with.
DataSizes == {0, 1}
\* len(self.prepare_training_data(None)): 90 days x 3 stores x 6 SKUs.
SyntheticSize == 1620

\* The mean absolute percentage error the random predictions come to.
MapeOutcomes == {20, 50, 150}

Min(a, b) == IF a <= b THEN a ELSE b

\* _calculate_metrics over n predictions whose mape is `mape`: n = 0
\* divides by zero.
_calculate_metrics(n, mape) ==
    [raised |-> IF n = 0 THEN "ZeroDivisionError" ELSE "",
     metrics |-> [mape |-> mape, accuracy |-> Max(0, 100 - mape), sample_size |-> n]]

\* Every record of test_data predicted.
_evaluate_model_all(test_samples, mape) == _calculate_metrics(test_samples, mape)

\* _evaluate_model: the first 100 records of test_data are predicted.
_evaluate_model(test_samples, mape) ==
    _calculate_metrics(Min(100, test_samples), mape)

\* Any algorithm name taken.
_train_algorithm_any(algorithm) == ""

\* _train_algorithm: "" or the error raised.
_train_algorithm(algorithm) ==
    IF algorithm \in SupportedAlgorithms THEN "" ELSE "ValueError"

NoInfo ==
    [algorithm |-> "", training_date |-> 0, training_samples |-> 0,
     test_samples |-> 0, metrics |-> [mape |-> 0, accuracy |-> 0, sample_size |-> 0]]

\* The trainer's last call: what was called, what it raised, the model_info
\* or the best model's name it returned (NoInfo, "" for None).
NoCall == [op |-> "", algorithm |-> "", raised |-> "", info |-> NoInfo, best |-> ""]

\* __init__, and no model_config.json on disk.
NewTrainer ==
    [models |-> <<>>, training_history |-> <<>>, clock |-> 0,
     file |-> [kind |-> "absent", models |-> <<>>, training_history |-> <<>>],
     last |-> NoCall]

\* The body of train_model on a table of n records: what is raised, the
\* model_info and the trainer's models and training_history afterwards.
train_model(t, n, algorithm, mape) ==
    LET train_size == Trunc(8 * n, 10)
        test_size == n - train_size
        evaluated == _evaluate_model(test_size, mape)
        model_info == [algorithm |-> algorithm, training_date |-> t.clock + 1,
                       training_samples |-> train_size, test_samples |-> test_size,
                       metrics |-> evaluated.metrics]
    IN  IF _train_algorithm(algorithm) # ""
        THEN [raised |-> _train_algorithm(algorithm), info |-> NoInfo, trainer |-> t]
        ELSE IF evaluated.raised # ""
        THEN [raised |-> evaluated.raised, info |-> NoInfo, trainer |-> t]
        ELSE [raised |-> "", info |-> model_info,
              trainer |-> [t EXCEPT !.models = Put(@, algorithm, model_info),
                                    !.training_history = Append(@, model_info),
                                    !.clock = @ + 1]]

\* compare_models: the loop over self.models.items() from its i-th entry on.
RECURSIVE CompareFrom(_, _, _, _)
CompareFrom(models, i, best_model, best_accuracy) ==
    IF i > Len(models) THEN best_model
    ELSE IF models[i].cfg.metrics.accuracy > best_accuracy
    THEN CompareFrom(models, i + 1, models[i].id, models[i].cfg.metrics.accuracy)
    ELSE CompareFrom(models, i + 1, best_model, best_accuracy)

\* compare_models: the best model's name, "" for None.
compare_models(models) == CompareFrom(models, 1, "", 0)

\* ------------------------------------------------------ the error handler
\* FlowerForecastErrorHandler (src/error_handling_system.py).  A sales table
\* is the sequence of its rows; a row keeps its place in the input (pos), its
\* date (NaT for a date that is missing or cannot be parsed), store and SKU
\* (Missing for None) and its quantity in thousandths, nan telling a quantity
\* that is missing or not a number.
MaxRows == 3
MaxCalls == 2

NaT == 0
Missing == "<NA>"

\* The rows of the input tables, but for their place.
SalesRowArgs ==
    {[date |-> 1, store |-> "Almaty_1", sku |-> "Roza_krasnaya", nan |-> FALSE, qty |-> 4000],
     [date |-> 1, store |-> "Almaty_1", sku |-> "Roza_krasnaya", nan |-> FALSE, qty |-> -3000],
     [date |-> 1, store |-> "Almaty_1", sku |-> "Roza_krasnaya", nan |-> TRUE, qty |-> 0],
     [date |-> 1, store |-> "Almaty_1", sku |-> "Tulpan_bely", nan |-> FALSE, qty |-> 25000],
     [date |-> NaT, store |-> "Almaty_1", sku |-> "Roza_krasnaya", nan |-> FALSE, qty |-> 4000],
     [date |-> 1, store |-> Missing, sku |-> "Roza_krasnaya", nan |-> FALSE, qty |-> 4000],
     [date |-> 1, store |-> "Almaty_1", sku |-> Missing, nan |-> FALSE, qty |-> -3000]}

\* The table of the rows rs, each given its place.
Placed(rs) ==
    [i \in 1..Len(rs) |->
        [pos |-> i, date |-> rs[i].date, store |-> rs[i].store, sku |-> rs[i].sku,
         nan |-> rs[i].nan, qty |-> rs[i].qty]]

\* The input tables: those with all four required columns, and those of at
\* most one row that lack one of them.
SalesTables ==
    {[columns |-> TRUE, rows |-> Placed(rs)] :
        rs \in UNION {[1..n -> SalesRowArgs] : n \in 0..MaxRows}}
    \cup {[columns |-> FALSE, rows |-> Placed(rs)] :
             rs \in UNION {[1..n -> SalesRowArgs] : n \in 0..1}}

\* The k-th smallest of the quantities of table t.
KthSmallest(t, k) ==
    CHOOSE v \in {t[i].qty : i \in 1..Len(t)} :
        /\ Cardinality({i \in 1..Len(t) : t[i].qty < v}) < k
        /\ Cardinality({i \in 1..Len(t) : t[i].qty <= v}) >= k

\* Series.quantile(q) with linear interpolation, q in thousandths, over the
\* quantities of a table that has rows.
Quantile(t, q) ==
    LET position == q * (Len(t) - 1)
        below == KthSmallest(t, (position \div 1000) + 1)
        above == KthSmallest(t, Min((position \div 1000) + 2, Len(t)))
    IN  below + (position % 1000) * ((above - below) \div 1000)

\* What a step of the validation hands to the next: the table, the error
\* messages so far and the counters.
\* _fix_data_types: the dates and quantities that could not be converted
\* are counted.
_fix_data_types(v) ==
    LET invalid_dates == Cardinality({i \in 1..Len(v.df) : v.df[i].date = NaT})
        invalid_quantities == Cardinality({i \in 1..Len(v.df) : v.df[i].nan})
        e1 == IF invalid_dates > 0 THEN Append(v.errors, "invalid_dates") ELSE v.errors
        e2 == IF invalid_quantities > 0 THEN Append(e1, "invalid_quantities") ELSE e1
    IN  [df |-> v.df, errors |-> e2,
         stats |-> [v.stats EXCEPT !.missing_data = @ + invalid_dates + invalid_quantities]]

IsComplete(row) == row.date # NaT /\ row.store # Missing /\ row.sku # Missing

\* _handle_missing_values: dropna on date, store, SKU; fillna(0) on quantity.
_handle_missing_values(v) ==
    LET kept == SelectSeq(v.df, IsComplete)
        missing_quantities == Cardinality({i \in 1..Len(kept) : kept[i].nan})
        filled == [i \in 1..Len(kept) |->
                      IF kept[i].nan THEN [kept[i] EXCEPT !.nan = FALSE, !.qty = 0]
                      ELSE kept[i]]
        removed_count == Len(v.df) - Len(kept)
        e1 == IF missing_quantities > 0 THEN Append(v.errors, "filled_quantities")
              ELSE v.errors
        e2 == IF removed_count > 0 THEN Append(e1, "removed_rows") ELSE e1
    IN  [df |-> filled, errors |-> e2,
         stats |-> [v.stats EXCEPT !.missing_data = @ + removed_count]]

\* _detect_and_handle_anomalies: quantities above the 99.5th percentile are
\* set to it, then negative quantities are set to 0.
_detect_and_handle_anomalies(v) ==
    IF Len(v.df) = 0 THEN v
    ELSE
    LET high_threshold == Quantile(v.df, 995)
        high_count == Cardinality({i \in 1..Len(v.df) : v.df[i].qty > high_threshold})
        clipped == [i \in 1..Len(v.df) |->
                       IF v.df[i].qty > high_threshold
                       THEN [v.df[i] EXCEPT !.qty = high_threshold] ELSE v.df[i]]
        low_count == Cardinality({i \in 1..Len(clipped) : clipped[i].qty < 0})
        raised == [i \in 1..Len(clipped) |->
                      IF clipped[i].qty < 0 THEN [clipped[i] EXCEPT !.qty = 0]
                      ELSE clipped[i]]
        e1 == IF high_count > 0 THEN Append(v.errors, "high") ELSE v.errors
        e2 == IF low_count > 0 THEN Append(e1, "low") ELSE e1
    IN  [df |-> raised, errors |-> e2,
         stats |-> [v.stats EXCEPT !.anomaly_high = @ + high_count,
                                   !.anomaly_low = @ + low_count]]

SameKey(a, b) == a.date = b.date /\ a.store = b.store /\ a.sku = b.sku

\* Duplicates dropped with keep='first'.
_handle_duplicates_keep_first(v) ==
    LET duplicate_mask == {i \in 1..Len(v.df) :
                              \E j \in 1..(i - 1) : SameKey(v.df[i], v.df[j])}
        is_kept(row) == \A i \in duplicate_mask : v.df[i].pos # row.pos
    IN  [df |-> SelectSeq(v.df, is_kept),
         errors |-> IF duplicate_mask # {} THEN Append(v.errors, "duplicates")
                    ELSE v.errors,
         stats |-> v.stats]

\* _handle_duplicates: duplicated(subset=date, store, SKU; keep='last').
_handle_duplicates(v) ==
    LET duplicate_mask == {i \in 1..Len(v.df) :
                              \E j \in (i + 1)..Len(v.df) : SameKey(v.df[i], v.df[j])}
        is_kept(row) == \A i \in duplicate_mask : v.df[i].pos # row.pos
    IN  [df |-> SelectSeq(v.df, is_kept),
         errors |-> IF duplicate_mask # {} THEN Append(v.errors, "duplicates")
                    ELSE v.errors,
         stats |-> v.stats]

\* validate_sales_data(df) with the counters `stats`: the table and the
\* messages returned, and the counters afterwards.
validate_sales_data(table, stats) ==
    IF ~table.columns
    THEN [df |-> table.rows, errors |-> <<"missing_columns">>, stats |-> stats]
    ELSE _handle_duplicates(
             _detect_and_handle_anomalies(
                 _handle_missing_values(
                     _fix_data_types([df |-> table.rows, errors |-> <<>>,
                                      stats |-> stats]))))

\* A forecast table: whether it has the demand column, and its rows, each
\* with its demand (qty, in thousandths) and the reason it is marked for a
\* manual check ("" for unmarked).
ForecastDemands == {-10000, 0, 5000}
ForecastTables ==
    {[columns |-> c, rows |-> [i \in 1..n |-> [qty |-> d[i], reason |-> ""]]] :
        c \in BOOLEAN, n \in 1..2, d \in [1..2 -> ForecastDemands]}

\* validate_forecast_output: demands above twice the 99th percentile are
\* marked and counted, zero demands are marked.
validate_forecast_output(table, stats) ==
    IF ~table.columns \/ Len(table.rows) = 0
    THEN [df |-> table.rows, errors |-> <<>>, stats |-> stats]
    ELSE
    LET df == table.rows
        high_forecast_threshold == Quantile(df, 990) * 2
        high_forecasts == {i \in 1..Len(df) : df[i].qty > high_forecast_threshold}
        zero_forecasts == {i \in 1..Len(df) : df[i].qty = 0}
        e1 == IF high_forecasts # {} THEN <<"high_forecasts">> ELSE <<>>
        e2 == IF zero_forecasts # {} THEN Append(e1, "zero_forecasts") ELSE e1
    IN  [df |-> [i \in 1..Len(df) |->
                    IF i \in zero_forecasts THEN [df[i] EXCEPT !.reason = "zero"]
                    ELSE IF i \in high_forecasts THEN [df[i] EXCEPT !.reason = "high"]
                    ELSE df[i]],
         errors |-> e2,
         stats |-> [stats EXCEPT !.anomaly_high = @ + Cardinality(high_forecasts)]]

\* _find_similar_sku_forecast: the forecast of the flower the SKU names, 0
\* for None.
_find_similar_sku_forecast(sku) ==
    IF sku = "Roza_krasnaya" THEN 25
    ELSE IF sku = "Tulpan_bely" THEN 15
    ELSE 0

\* The recommendations of handle_new_sku.
new_sku_recommendations(sku) ==
    LET similar == _find_similar_sku_forecast(sku) IN
    IF similar # 0
    THEN [initial_forecast |-> similar, recommended_purchase |-> similar * 2,
          confidence |-> "medium"]
    ELSE [initial_forecast |-> 5, recommended_purchase |-> 10, confidence |-> "low"]

\* The retry interval handle_integration_error recommends.
retry_interval(error_type) ==
    IF error_type = "inspiro" THEN 600
    ELSE IF error_type = "weather_api" THEN 1800
    ELSE 300

\* sum(self.error_stats.values())
TotalErrors(stats) ==
    stats.missing_data + stats.new_sku + stats.anomaly_high + stats.anomaly_low
        + stats.integration_errors

\* The report with the new_sku counter left out of the total.
get_error_report_less(stats) ==
    LET total_errors == TotalErrors(stats) - stats.new_sku
        denominator == Max(total_errors, 1)
    IN  [total_errors |-> total_errors,
         error_breakdown |-> stats,
         denominator |-> denominator,
         missing_data_rate |-> stats.missing_data,
         anomaly_rate |-> stats.anomaly_high + stats.anomaly_low,
         integration_error_rate |-> stats.integration_errors]

\* get_error_report: each rate is its numerator here, over `denominator`.
get_error_report(stats) ==
    LET total_errors == TotalErrors(stats)
        denominator == Max(total_errors, 1)
    IN  [total_errors |-> total_errors,
         error_breakdown |-> stats,
         denominator |-> denominator,
         missing_data_rate |-> stats.missing_data,
         anomaly_rate |-> stats.anomaly_high + stats.anomaly_low,
         integration_error_rate |-> stats.integration_errors]

NoStats ==
    [missing_data |-> 0, new_sku |-> 0, anomaly_high |-> 0, anomaly_low |-> 0,
     integration_errors |-> 0]
NoTable == [columns |-> FALSE, rows |-> <<>>]
NoReport == get_error_report(NoStats)

\* The handler's last call: what was called with which arguments and what
\* it returned.
NoHandlerCall ==
    [op |-> "", table |-> NoTable, arg |-> "", df |-> <<>>, errors |-> <<>>,
     recommendation |-> 0, report |-> NoReport]

\* __init__; `pending` is the table the caller is about to hand in.
NewHandler ==
    [error_stats |-> NoStats, calls |-> 0, pending |-> NoTable, last |-> NoHandlerCall]

\* ------------------------------------------------ the Streamlit application
\* FlowerForecastApp (src/script_2.py).  A Python string is modelled by the
\* sequence of the pieces its underscores separate: 'Almaty_1' is
\* <<"Almaty", "1">>, and a string without an underscore is a sequence of
\* one piece.  Joining two strings with '_' is then \o.  The Cyrillic names
\* are transliterated.

\* the sidebar's slider offers 1 to 30 days; the model offers 1..MaxForecastDays
MaxForecastDays == 2

\* the number of corrections saved in one session
MaxCorrections == 2

\* available_stores of main ('Almaty_1' ... 'Almaty_5'); the model offers the
\* two stores the multiselect starts with
available_stores == {<<"Almaty", "1">>, <<"Almaty", "2">>}

SelectedStoresArgs == {{<<"Almaty", "1">>}, available_stores}

\* skus of generate_sample_forecast: three of the nine names, with two,
\* one and no underscore
sample_skus == {<<"Roza", "krasnaya", "60sm">>, <<"Tyulpan", "belyj">>, <<"Mimoza">>}

TwoDigits(n) == IF n < 10 THEN "0" \o ToString(n) ELSE ToString(n)

\* date.strftime('%Y-%m-%d'), for a day of 2026
strftime(day) == <<"2026-" \o TwoDigits(Month(day)) \o "-" \o TwoDigits(DayOfMonth(day))>>

\* What the seeded generator gives a row is left out: every row starts with
\* the same forecast and purchase.
SampleForecast == 20

SamplePurchase == 5

\* generate_sample_forecast(days, stores): the table, as a function of its
\* rows' (date, store, SKU)
generate_sample_forecast(day0, days, stores) ==
    [row \in {strftime(day0 + d) : d \in 0..(days - 1)} \X stores \X sample_skus |->
        [forecast |-> SampleForecast, purchase |-> SamplePurchase]]

\* pd.DataFrame()
EmptyFrame == [row \in {} |-> [forecast |-> 0, purchase |-> 0]]

\* f"{selected_date}_{selected_store}_{selected_sku}"
correction_key(selected_date, selected_store, selected_sku) ==
    selected_date \o selected_store \o selected_sku

\* key.split('_', 2): at most three parts, the last one keeping its underscores
split2(key) ==
    IF Len(key) <= 2
    THEN [i \in 1..Len(key) |-> <<key[i]>>]
    ELSE <<<<key[1]>>, <<key[2]>>, SubSeq(key, 3, Len(key))>>

\* the loop of the history view; date, store, sku = ... needs three parts
RECURSIVE corrections_list(_)
corrections_list(corrections) ==
    IF corrections = <<>>
    THEN <<>>
    ELSE LET parts == split2(corrections[1].key)
             rest  == corrections_list(Tail(corrections))
         IN  IF Len(parts) # 3 \/ rest = "ValueError"
             THEN "ValueError"
             ELSE <<[date   |-> parts[1],
                     store  |-> parts[2],
                     sku    |-> parts[3],
                     before |-> corrections[1].correction.original_forecast,
                     after  |-> corrections[1].correction.new_forecast,
                     reason |-> corrections[1].correction.reason]>> \o rest

\* st.session_state.corrections[key] = correction: a known key keeps its
\* place.  saved_for is not in the program: it records the selection the
\* entry was saved for.
PutCorrection(corrections, key, correction, saved_for) ==
    LET entry == [key |-> key, correction |-> correction, saved_for |-> saved_for]
    IN  IF \E i \in 1..Len(corrections) : corrections[i].key = key
        THEN [i \in 1..Len(corrections) |->
                 IF corrections[i].key = key THEN entry ELSE corrections[i]]
        ELSE Append(corrections, entry)

\* init_session_state: no forecast, no corrections; nothing shown yet
NewApp ==
    [forecast_data |-> EmptyFrame,
     corrections   |-> <<>>,
     clock         |-> 0,
     shown         |-> <<>>,
     run           |-> "none"]

\* ---------------------------------------------------- calls and responses
\* `last` is the call just made and what its caller received; the caller
\* drops it (Return) before the next call.
NoMetrics == [store_id |-> "", store_name |-> "", total_stores |-> 0]
Idle ==
    [op |-> "idle", m |-> 0, store_id |-> "", days |-> 0,
     arg |-> [isdict |-> FALSE, d |-> EmptyDict],
     io |-> "", raised |-> "", ret |-> FALSE, rows |-> <<>>,
     consolidation |-> EmptyDict, metrics |-> NoMetrics]

\* Before any manager is constructed.
ManagerInit ==
    /\ fs = [p \in Paths |-> IF p = "custom_config.json"
                             THEN JsonFile(HandWrittenConfig) ELSE AbsentFile]
    /\ alive = {}
    /\ config_path = [m \in Managers |-> NoPath]
    /\ stores_config = [m \in Managers |-> EmptyConfig]
    /\ today \in StartDays
    /\ rng \in 0..(RngPeriod - 1)
    /\ adds = 0
    /\ last = Idle

Init ==
    /\ ManagerInit
    /\ trainer = NewTrainer
    /\ handler = NewHandler
    /\ app = NewApp

\* MultiStoreForecastManager(config_path)
Construct(m, path) ==
    /\ last.op = "idle"
    /\ m \notin alive
    /\ LET r == _load_stores_config(fs, path) IN
       /\ fs' = r.files
       /\ IF r.raised = ""
          THEN /\ alive' = alive \cup {m}
               /\ config_path' = [config_path EXCEPT ![m] = path]
               /\ stores_config' = [stores_config EXCEPT ![m] = r.config]
          ELSE UNCHANGED <<alive, config_path, stores_config>>
       /\ last' = [Idle EXCEPT !.op = "__init__", !.m = m, !.raised = r.raised]
    /\ UNCHANGED <<today, rng, adds>>

\* The defaults written over the supplied values.
WithDefaultsOverwriting(store_config) ==
    [k \in (DOMAIN store_config) \cup (DOMAIN default_values) |->
        IF k \in DOMAIN default_values THEN default_values[k] ELSE store_config[k]]

\* The store_config after `for key, value in default_values.items()`.
WithDefaults(store_config) ==
    [k \in (DOMAIN store_config) \cup (DOMAIN default_values) |->
        IF k \in DOMAIN store_config THEN store_config[k] ELSE default_values[k]]

\* The exception raised inside add_new_store's try block ("" for none).
AddNewStoreError(arg) ==
    IF ~arg.isdict THEN "TypeError"
    ELSE IF ~(required_fields \subseteq DOMAIN arg.d) THEN "ValueError"
    ELSE ""

\* `except Exception` catches every exception the body can raise.
CaughtByExcept(err) == err \in {"ValueError", "TypeError", "KeyError"}

\* No except clause: the error of the body reaches the caller.
AddNewStoreReraised(arg) == AddNewStoreError(arg)

\* What add_new_store lets out to its caller ("" for nothing).
AddNewStoreRaised(arg) ==
    IF CaughtByExcept(AddNewStoreError(arg)) THEN "" ELSE AddNewStoreError(arg)

\* add_new_store(store_id, store_config), at most `bound` successful
\* registrations in a behaviour.
AddNewStoreUpTo(m, store_id, arg, io, bound) ==
    /\ last.op = "idle"
    /\ m \in alive
    /\ IF AddNewStoreError(arg) # ""
       THEN /\ last' = [Idle EXCEPT !.op = "add_new_store", !.m = m,
                              !.store_id = store_id, !.arg = arg,
                              !.raised = AddNewStoreRaised(arg), !.ret = FALSE]
            /\ UNCHANGED <<fs, stores_config, adds>>
       ELSE /\ adds < bound
            /\ LET config == [stores_config[m] EXCEPT
                                 !.stores = Put(@, store_id, WithDefaults(arg.d))]
               IN  /\ stores_config' = [stores_config EXCEPT ![m] = config]
                   /\ fs' = _save_config(fs, config, io)
            /\ adds' = adds + 1
            /\ last' = [Idle EXCEPT !.op = "add_new_store", !.m = m,
                              !.store_id = store_id, !.arg = arg,
                              !.io = io,
                              !.raised = AddNewStoreRaised(arg), !.ret = TRUE]
    /\ UNCHANGED <<alive, config_path, today, rng>>

\* add_new_store(store_id, store_config)
AddNewStore(m, store_id, arg, io) == AddNewStoreUpTo(m, store_id, arg, io, MaxAdds)

\* get_store_forecast(store_id, forecast_days)
GetStoreForecast(m, store_id, forecast_days) ==
    /\ last.op = "idle"
    /\ m \in alive
    /\ LET r == StoreForecast(stores_config[m].stores, store_id, forecast_days, today, rng)
       IN  /\ last' = [Idle EXCEPT !.op = "get_store_forecast", !.m = m,
                             !.store_id = store_id, !.days = forecast_days,
                             !.raised = r.raised, !.rows = r.rows]
           /\ rng' = (rng + r.draws) % RngPeriod
    /\ UNCHANGED <<fs, alive, config_path, stores_config, today, adds>>

\* get_network_forecast(forecast_days)
GetNetworkForecast(m, forecast_days) ==
    /\ last.op = "idle"
    /\ m \in alive
    /\ LET r == NetworkForecast(stores_config[m].stores, forecast_days, today, rng)
       IN  /\ last' = [Idle EXCEPT !.op = "get_network_forecast", !.m = m,
                             !.days = forecast_days,
                             !.raised = r.raised, !.rows = r.rows]
           /\ rng' = (rng + r.draws) % RngPeriod
    /\ UNCHANGED <<fs, alive, config_path, stores_config, today, adds>>

\* get_consolidation_opportunities(forecast_df), forecast_df being the table
\* the caller has just received; it stays in last.rows.
GetConsolidationOpportunities(m) ==
    /\ last.op \in {"get_store_forecast", "get_network_forecast"}
    /\ last.raised = ""
    /\ last.m = m
    /\ LET r == ConsolidationOpportunities(last.rows)
       IN  last' = [Idle EXCEPT !.op = "get_consolidation_opportunities", !.m = m,
                          !.rows = last.rows, !.raised = r.raised,
                          !.consolidation = r.result]
    /\ UNCHANGED <<fs, alive, config_path, stores_config, today, rng, adds>>

\* The metrics call also writing the configuration file.
GetPerformanceMetricsSaving(m, store_id) ==
    /\ last.op = "idle"
    /\ m \in alive
    /\ last' = [Idle EXCEPT !.op = "get_performance_metrics", !.m = m,
                      !.store_id = store_id,
                      !.metrics = PerformanceMetrics(stores_config[m].stores, store_id)]
    /\ rng' = (rng + MetricsDraws) % RngPeriod
    /\ fs' = _save_config(fs, stores_config[m], "ok")
    /\ UNCHANGED <<alive, config_path, stores_config, today, adds>>

\* get_performance_metrics(store_id)
GetPerformanceMetrics(m, store_id) ==
    /\ last.op = "idle"
    /\ m \in alive
    /\ last' = [Idle EXCEPT !.op = "get_performance_metrics", !.m = m,
                      !.store_id = store_id,
                      !.metrics = PerformanceMetrics(stores_config[m].stores, store_id)]
    /\ rng' = (rng + MetricsDraws) % RngPeriod
    /\ UNCHANGED <<fs, alive, config_path, stores_config, today, adds>>

\* The caller is done with the response.
Return ==
    /\ last.op # "idle"
    /\ last' = Idle
    /\ UNCHANGED <<fs, alive, config_path, stores_config, today, rng, adds>>

DaysArgs == (0..MaxDays) \cup {NoneDays}
\* get_network_forecast is also asked for one day more, so that a store's
\* block spans several days.
NetworkDaysArgs == 0..(MaxDays + 1)

\* One step of manager m, or of its caller.
Step(m) ==
    \/ \E path \in Paths : Construct(m, path)
    \/ \E store_id \in AddIds, arg \in StoreConfigArgs, io \in IoOutcomes :
          AddNewStore(m, store_id, arg, io)
    \/ \E store_id \in QueryIds, d \in DaysArgs : GetStoreForecast(m, store_id, d)
    \/ \E d \in NetworkDaysArgs : GetNetworkForecast(m, d)
    \/ GetConsolidationOpportunities(m)
    \/ \E store_id \in QueryIds \cup {""} : GetPerformanceMetrics(m, store_id)
    \/ Return

\* One process: a single manager and its caller.
Next == Step(1) /\ UNCHANGED <<trainer, handler, app>>

Spec == Init /\ [][Next]_vars

\* Two processes, each with its own manager, sharing the files: they
\* construct their managers and register stores; one registration each.
TwoProcessAdds == 2
TwoProcessIds == {"almaty_4", "almaty_5"}

NextTwo ==
    /\ \E m \in Managers :
           \/ \E path \in Paths : Construct(m, path)
           \/ \E store_id \in TwoProcessIds, arg \in StoreConfigArgs, io \in IoOutcomes :
                 AddNewStoreUpTo(m, store_id, arg, io, TwoProcessAdds)
           \/ Return
    /\ UNCHANGED <<trainer, handler, app>>

\* No forecast is made: the day and the generator play no part.
InitTwo ==
    /\ Init
    /\ today = 44
    /\ rng = 0

SpecTwo == InitTwo /\ [][NextTwo]_vars

\* ------------------------------------------------- the trainer's callers
\* trainer.train_model(training_data, algorithm), len(training_data) = n
TrainModel(n, algorithm, mape) ==
    LET r == train_model(trainer, n, algorithm, mape) IN
    /\ r.raised = "" => Len(trainer.training_history) < MaxTrainings
    /\ trainer' = [r.trainer EXCEPT !.last =
                      [NoCall EXCEPT !.op = "train_model", !.algorithm = algorithm,
                                     !.raised = r.raised, !.info = r.info]]

\* trainer.compare_models()
CompareModels ==
    trainer' = [trainer EXCEPT !.last =
                   [NoCall EXCEPT !.op = "compare_models",
                                  !.best = compare_models(trainer.models)]]

\* How the write of model_config.json in save_model_config can end; it has
\* no try block, a failure reaches the caller of retrain_model.
SaveOutcomes == {"ok", "open_fails"}

\* save_model_config
save_model_config(t, io) ==
    IF io = "ok"
    THEN [t EXCEPT !.file = [kind |-> "json", models |-> t.models,
                             training_history |-> t.training_history]]
    ELSE t

\* trainer.retrain_model(algorithm)
RetrainModel(algorithm, mape, io) ==
    LET best == compare_models(trainer.models)
        chosen == IF algorithm # NoAlgorithm THEN algorithm
                  ELSE IF best = "" THEN "linear_regression"
                  ELSE best
        r == train_model(trainer, SyntheticSize, chosen, mape)
    IN  /\ r.raised = "" => Len(trainer.training_history) < MaxTrainings
        /\ trainer' =
              IF r.raised # ""
              THEN [trainer EXCEPT !.last =
                       [NoCall EXCEPT !.op = "retrain_model", !.algorithm = algorithm,
                                      !.raised = r.raised]]
              ELSE [save_model_config(r.trainer, io) EXCEPT !.last =
                       [NoCall EXCEPT !.op = "retrain_model", !.algorithm = algorithm,
                                      !.raised = IF io = "ok" THEN "" ELSE "OSError",
                                      !.info = IF io = "ok" THEN r.info ELSE NoInfo]]

NextTrainer ==
    /\ \/ \E n \in DataSizes, algorithm \in AlgorithmArgs, mape \in MapeOutcomes :
              TrainModel(n, algorithm, mape)
       \/ CompareModels
       \/ \E algorithm \in AlgorithmArgs \cup {NoAlgorithm}, mape \in MapeOutcomes,
                io \in SaveOutcomes :
              RetrainModel(algorithm, mape, io)
    /\ UNCHANGED <<manager_vars, handler, app>>

SpecTrainer == InitTwo /\ [][NextTrainer]_vars

\* ------------------------------------------------- the handler's callers
\* error_handler.validate_sales_data(df)
ValidateSalesData(table) ==
    /\ handler.calls < MaxCalls
    /\ LET r == validate_sales_data(table, handler.error_stats) IN
       handler' = [handler EXCEPT
                      !.error_stats = r.stats, !.calls = @ + 1,
                      !.last = [NoHandlerCall EXCEPT !.op = "validate_sales_data",
                                   !.table = table, !.df = r.df, !.errors = r.errors]]

\* error_handler.validate_forecast_output(forecast_df)
ValidateForecastOutput(table) ==
    /\ handler.calls < MaxCalls
    /\ LET r == validate_forecast_output(table, handler.error_stats) IN
       handler' = [handler EXCEPT
                      !.error_stats = r.stats, !.calls = @ + 1,
                      !.last = [NoHandlerCall EXCEPT !.op = "validate_forecast_output",
                                   !.table = table, !.df = r.df, !.errors = r.errors]]

\* error_handler.handle_new_sku(sku, store)
HandleNewSku(sku) ==
    /\ handler.calls < MaxCalls
    /\ handler' = [handler EXCEPT
                      !.error_stats.new_sku = @ + 1, !.calls = @ + 1,
                      !.last = [NoHandlerCall EXCEPT !.op = "handle_new_sku", !.arg = sku,
                                   !.recommendation =
                                       new_sku_recommendations(sku).recommended_purchase]]

\* error_handler.handle_integration_error(error_type, details)
HandleIntegrationError(error_type) ==
    /\ handler.calls < MaxCalls
    /\ handler' = [handler EXCEPT
                      !.error_stats.integration_errors = @ + 1, !.calls = @ + 1,
                      !.last = [NoHandlerCall EXCEPT !.op = "handle_integration_error",
                                   !.arg = error_type,
                                   !.recommendation = retry_interval(error_type)]]

\* error_handler.get_error_report()
GetErrorReport ==
    handler' = [handler EXCEPT
                   !.last = [NoHandlerCall EXCEPT !.op = "get_error_report",
                                !.report = get_error_report(handler.error_stats)]]

\* The table of the module's own example: a good row, a quantity that is no
\* number, a date that is no date, a negative quantity.
DemoTable ==
    [columns |-> TRUE,
     rows |-> Placed(<<
        [date |-> 1, store |-> "Almaty_1", sku |-> "Tulpan_bely", nan |-> FALSE, qty |-> 25000],
        [date |-> 1, store |-> "Almaty_1", sku |-> "Roza_krasnaya", nan |-> TRUE, qty |-> 0],
        [date |-> NaT, store |-> "Almaty_1", sku |-> "Roza_krasnaya", nan |-> FALSE, qty |-> 4000],
        [date |-> 1, store |-> "Almaty_1", sku |-> "Roza_krasnaya", nan |-> FALSE, qty |-> -3000]>>)]

\* The tables a run of several calls validates: those of at most one row and
\* the example.
FewSalesTables ==
    {[columns |-> c, rows |-> Placed(rs)] :
        c \in BOOLEAN, rs \in UNION {[1..n -> SalesRowArgs] : n \in 0..1}}
    \cup {DemoTable}

SkuArgs == {"Roza_krasnaya", "Novy_tovar"}
ErrorTypeArgs == {"google_sheets", "inspiro", "smtp"}

NextHandler ==
    /\ \/ \E table \in FewSalesTables : ValidateSalesData(table)
       \/ \E table \in ForecastTables : ValidateForecastOutput(table)
       \/ \E sku \in SkuArgs : HandleNewSku(sku)
       \/ \E error_type \in ErrorTypeArgs : HandleIntegrationError(error_type)
       \/ GetErrorReport
    /\ UNCHANGED <<manager_vars, trainer, app>>

SpecHandler == InitTwo /\ [][NextHandler]_vars

\* validate_sales_data as a function of its table: the caller holds any of
\* the tables and hands it in.
InitValidate ==
    /\ ManagerInit
    /\ today = 44
    /\ rng = 0
    /\ trainer = NewTrainer
    /\ handler \in {[NewHandler EXCEPT !.pending = table] : table \in SalesTables}
    /\ app = NewApp

NextValidate ==
    /\ ValidateSalesData(handler.pending)
    /\ UNCHANGED <<manager_vars, trainer, app>>

SpecValidate == InitValidate /\ [][NextValidate]_vars

\* ------------------------------------------------------ the application's runs
\* the sidebar's button: the forecast is generated anew, the corrections stay
UpdateForecast(selected_stores, forecast_days) ==
    /\ app' = [app EXCEPT
                  !.forecast_data =
                      generate_sample_forecast(today, forecast_days, selected_stores),
                  !.run = "update"]

\* show_forecast_tab: generates the forecast when there is none
ShowForecastTab(selected_stores, forecast_days) ==
    /\ app.forecast_data = EmptyFrame
    /\ app' = [app EXCEPT
                  !.forecast_data =
                      generate_sample_forecast(today, forecast_days, selected_stores),
                  !.run = "forecast"]

NewForecastArgs == {0, 30}

ReasonArgs == {"", "promo"}

\* show_corrections_tab with a position selected and the form filled in.  With
\* the form submitted and a reason given the correction is saved, the row
\* corrected and the script run again; the history is shown in either case.
ShowCorrectionsTab(selected, new_forecast, reason, submitted) ==
    /\ selected \in DOMAIN app.forecast_data
    /\ LET current == app.forecast_data[selected]
           saves   == submitted /\ reason # ""
           correction ==
               [original_forecast |-> current.forecast,
                new_forecast      |-> new_forecast,
                original_purchase |-> current.purchase,
                new_purchase      |-> current.purchase,
                reason            |-> reason,
                timestamp         |-> app.clock + 1]
           corrections ==
               IF saves
               THEN PutCorrection(app.corrections,
                                  correction_key(selected[1], selected[2], selected[3]),
                                  correction, selected)
               ELSE app.corrections
       IN  /\ saves => app.clock < MaxCorrections
           /\ app' = [app EXCEPT
                         !.forecast_data =
                             IF saves
                             THEN [@ EXCEPT ![selected] =
                                      [forecast |-> new_forecast,
                                       purchase |-> current.purchase]]
                             ELSE @,
                         !.corrections = corrections,
                         !.clock = IF saves THEN @ + 1 ELSE @,
                         !.shown = corrections_list(corrections),
                         !.run = IF saves THEN "saved" ELSE "shown"]

ForecastDaysArgs == 1..MaxForecastDays

NextApp ==
    /\ \/ \E selected_stores \in SelectedStoresArgs, forecast_days \in ForecastDaysArgs :
              UpdateForecast(selected_stores, forecast_days)
       \/ \E selected_stores \in SelectedStoresArgs, forecast_days \in ForecastDaysArgs :
              ShowForecastTab(selected_stores, forecast_days)
       \/ \E selected \in DOMAIN app.forecast_data, new_forecast \in NewForecastArgs,
             reason \in ReasonArgs, submitted \in BOOLEAN :
              ShowCorrectionsTab(selected, new_forecast, reason, submitted)
    /\ UNCHANGED <<manager_vars, trainer, handler>>

SpecApp == InitTwo /\ [][NextApp]_vars

\* ================================================================= claims
\* The registry the last call ran on (no query changes it).
LastStores == stores_config[last.m].stores
LastIsForecast == last.op \in {"get_store_forecast", "get_network_forecast"}
RowsOf(t) == {t[k] : k \in 1..Len(t)}

\* C1: get_store_forecast(store_id, days) for a registered, active store and
\* days >= 0 returns exactly days x 6 rows, one for each pair of a day offset
\* below days and a SKU of the store's assortment, none repeated, none missing.
C1_RowPerDayAndSku ==
    (/\ last.op = "get_store_forecast"
     /\ last.store_id \in Keys(LastStores)
     /\ last.days >= 0)
    => LET cfg == Get(LastStores, last.store_id)
           assortment ==
               IF cfg.type = "premium" THEN premium_skus
               ELSE IF cfg.type = "mass_market" THEN mass_market_skus
               ELSE business_skus
       IN  GetOr(cfg, "active", TRUE) =>
              /\ last.raised = ""
              /\ Len(last.rows) = last.days * 6
              /\ \A day \in 0..(last.days - 1) : \A i \in 1..6 :
                    Cardinality({k \in 1..Len(last.rows) :
                        /\ last.rows[k].day = day
                        /\ last.rows[k].date = today + day
                        /\ last.rows[k].sku = assortment[i]}) = 1

\* C1 witness: a one-day forecast of a store registered at run time came back
\* with its six rows.
C1_Witness ==
    /\ last.op = "get_store_forecast"
    /\ last.store_id = "almaty_4"
    /\ last.days = 1
    /\ Len(last.rows) = 6

\* C2 (as claimed): every row of a store or network forecast has demand >= 0
\* and recommended_purchase >= 0, whatever configuration add_new_store let
\* into the registry.
C2_NonNegative ==
    LastIsForecast =>
        \A r \in RowsOf(last.rows) : r.demand >= 0 /\ r.recommended_purchase >= 0

\* C3: in every forecast row the priority is high exactly when
\* recommended_purchase > demand, medium exactly when
\* demand / 2 < recommended_purchase <= demand, and low otherwise.
C3_PriorityRule ==
    LastIsForecast =>
        \A r \in RowsOf(last.rows) :
            /\ r.priority \in {"high", "medium", "low"}
            /\ r.priority = "high" <=> r.recommended_purchase > r.demand
            /\ r.priority = "medium" <=>
                  /\ r.demand < 2 * r.recommended_purchase
                  /\ r.recommended_purchase <= r.demand

\* C3 witness: one forecast holds rows of all three priorities, a row with
\* recommended_purchase = demand among them.
C3_Witness ==
    /\ LastIsForecast
    /\ \E r \in RowsOf(last.rows) : r.priority = "high"
    /\ \E r \in RowsOf(last.rows) :
          r.priority = "medium" /\ r.recommended_purchase = r.demand
    /\ \E r \in RowsOf(last.rows) : r.priority = "low"

\* The purchase summed over the rows of the (date, sku) group of table t.
GroupPurchase(t, date, sku) ==
    SumRows(t, {k \in 1..Len(t) : t[k].date = date /\ t[k].sku = sku})

\* C4: get_consolidation_opportunities reports no (date, SKU) group whose
\* purchase summed over the input rows is below 50, and no date without a
\* group that reaches 50.
C4_NoLowVolumeGroup ==
    (last.op = "get_consolidation_opportunities" /\ last.raised = "") =>
        \A date \in DOMAIN last.consolidation :
            LET items == last.consolidation[date].top_items IN
            /\ \A j \in 1..Len(items) :
                  /\ items[j].date = date
                  /\ GroupPurchase(last.rows, date, items[j].sku) >= 50
            /\ \E r \in RowsOf(last.rows) :
                  r.date = date /\ GroupPurchase(last.rows, date, r.sku) >= 50

\* C4 witness: a date is reported although one of its groups sums to less
\* than 50, and another date of the table is not reported at all.
C4_Witness ==
    /\ last.op = "get_consolidation_opportunities"
    /\ \E date \in DOMAIN last.consolidation :
          \E r \in RowsOf(last.rows) :
              r.date = date /\ GroupPurchase(last.rows, date, r.sku) < 50
    /\ \E r \in RowsOf(last.rows) : r.date \notin DOMAIN last.consolidation

\* C5: get_store_forecast with a store_id that is no key of the registry
\* raises its not-found error to the caller, returns no table, and leaves the
\* registry and the files as they were.
C5_UnknownStoreRaises ==
    [][(/\ last'.op = "get_store_forecast"
        /\ last'.store_id \notin Keys(stores_config[last'.m].stores))
       => /\ last'.raised = "ValueError"
          /\ last'.rows = <<>>
          /\ stores_config' = stores_config
          /\ fs' = fs]_vars

\* C5 witness: the id of a store that is registered only later was asked for
\* and the error reached the caller.
C5_Witness ==
    /\ last.op = "get_store_forecast"
    /\ last.store_id = "almaty_4"
    /\ last.raised = "ValueError"

\* C6: get_store_forecast for a registered store with active = false returns
\* an empty table and raises nothing, for every days argument; a store whose
\* configuration has no active field is forecast like an active one.
C6_InactiveStoreEmpty ==
    (last.op = "get_store_forecast" /\ last.store_id \in Keys(LastStores)) =>
        LET cfg == Get(LastStores, last.store_id)
            days == IF last.days = NoneDays
                    THEN (IF "forecast_horizon_days" \in DOMAIN cfg
                          THEN cfg.forecast_horizon_days ELSE 7)
                    ELSE last.days
        IN  /\ ("active" \in DOMAIN cfg /\ cfg.active = FALSE)
                  => (last.raised = "" /\ Len(last.rows) = 0)
            /\ "active" \notin DOMAIN cfg
                  => (last.raised = "" /\ Len(last.rows) = 6 * days)

\* C6 witness: a closed store was asked for a day's forecast.
C6_Witness ==
    /\ last.op = "get_store_forecast"
    /\ last.store_id \in Keys(LastStores)
    /\ "active" \in DOMAIN Get(LastStores, last.store_id)
    /\ Get(LastStores, last.store_id).active = FALSE
    /\ last.days = 1
    /\ last.rows = <<>>

\* The store_config argument is a dict without one of the six required fields.
LacksRequiredField(arg) ==
    /\ arg.isdict
    /\ \E f \in {"name", "address", "type", "size_category", "target_audience",
                 "avg_daily_visitors"} : f \notin DOMAIN arg.d

\* C7: add_new_store with a configuration that lacks a required field fails
\* and changes nothing: the registry of every manager and every file are
\* what they were before the call.
C7_InvalidLeavesRegistry ==
    [][(last'.op = "add_new_store" /\ LacksRequiredField(last'.arg))
       => /\ last'.ret = FALSE
          /\ stores_config' = stores_config
          /\ fs' = fs]_vars

\* C7 witness: a registration without avg_daily_visitors was turned down after
\* the configuration file had been written.
C7_Witness ==
    /\ last.op = "add_new_store"
    /\ last.arg.isdict
    /\ "avg_daily_visitors" \notin DOMAIN last.arg.d
    /\ last.ret = FALSE
    /\ fs["stores_config.json"].kind = "json"

\* C8 (as claimed): a registration that lacks a required field reaches the
\* caller of add_new_store as a raised validation error.
C8_ValidationErrorPropagates ==
    (last.op = "add_new_store" /\ LacksRequiredField(last.arg))
        => last.raised = "ValueError"

\* C8 (amended): add_new_store raises nothing; a registration that lacks a
\* required field is answered with the return value false, the same answer
\* as for a store_config that is no dict, and every other call returns true.
C8_ValidationReturnsFalse ==
    last.op = "add_new_store" =>
        /\ last.raised = ""
        /\ last.ret = FALSE <=> (~last.arg.isdict \/ LacksRequiredField(last.arg))

\* C8 witness: a registration without name came back as false, nothing raised.
C8_Witness ==
    /\ last.op = "add_new_store"
    /\ last.arg.isdict
    /\ "name" \notin DOMAIN last.arg.d
    /\ last.ret = FALSE
    /\ last.raised = ""

\* C9: add_new_store with all six required fields returns true, and the
\* registry then maps store_id to the supplied configuration completed with
\* the documented default of every optional field the input left out.
C9_DefaultsFilled ==
    (last.op = "add_new_store" /\ last.arg.isdict /\ ~LacksRequiredField(last.arg)) =>
        /\ last.ret = TRUE
        /\ last.store_id \in Keys(LastStores)
        /\ LET cfg == Get(LastStores, last.store_id)
               d == last.arg.d
               given(k) == k \in DOMAIN d
           IN  /\ DOMAIN cfg = (DOMAIN d) \cup
                      {"seasonal_multipliers", "holiday_multipliers",
                       "weather_sensitivity", "forecast_horizon_days",
                       "safety_stock_ratio", "active"}
               /\ \A k \in DOMAIN d : cfg[k] = d[k]
               /\ given("seasonal_multipliers") \/ cfg.seasonal_multipliers =
                      [winter |-> 9, spring |-> 11, summer |-> 10, autumn |-> 10]
               /\ given("holiday_multipliers") \/ cfg.holiday_multipliers =
                      [WOMENS_DAY |-> 40, VALENTINES |-> 18, NAURYZ |-> 20]
               /\ given("weather_sensitivity") \/ cfg.weather_sensitivity = 25
               /\ given("forecast_horizon_days") \/ cfg.forecast_horizon_days = 7
               /\ given("safety_stock_ratio") \/ cfg.safety_stock_ratio = 12
               /\ given("active") \/ cfg.active = TRUE

\* C9 witness: a store registered with some optional fields given and others
\* left out is in the registry with both.
C9_Witness ==
    /\ last.op = "add_new_store"
    /\ last.ret = TRUE
    /\ "weather_sensitivity" \in DOMAIN last.arg.d
    /\ "active" \notin DOMAIN last.arg.d
    /\ Get(LastStores, last.store_id).weather_sensitivity = 250
    /\ Get(LastStores, last.store_id).active = TRUE

\* C10 (as claimed): after a successful add_new_store whose write went
\* through, a manager constructed with the same config_path loads a registry
\* that holds the new store and equals the first manager's registry.
C10_PersistedToConfigPath ==
    (last.op = "add_new_store" /\ last.ret = TRUE /\ last.io = "ok") =>
        LET loaded == _load_stores_config(fs, config_path[last.m]) IN
        /\ loaded.raised = ""
        /\ last.store_id \in Keys(loaded.config.stores)
        /\ loaded.config = stores_config[last.m]

\* The step is a registration that went through although its write failed.
FailedWriteStep ==
    /\ last.op = "idle"
    /\ last'.op = "add_new_store"
    /\ last'.ret = TRUE
    /\ last'.io # "ok"

\* C11: when the write of the configuration file fails during
\* add_new_store, the new store stays in the registry, the call reports
\* success and the file keeps its previous content.
C11_FailedWriteKeepsFile ==
    [][FailedWriteStep =>
          /\ last'.store_id \in Keys(stores_config'[last'.m].stores)
          /\ fs' = fs]_vars

\* What _save_config does when the write fails: the new store stays in the
\* registry and the call reports success; the file keeps its previous content
\* if it could not be opened and is left cut short if the dump failed after
\* the open; no other file changes, and the file holds the registry only if
\* the registration changed nothing.
FailedWriteNotRolledBack ==
    [][FailedWriteStep =>
          /\ last'.store_id \in Keys(stores_config'[last'.m].stores)
          /\ \A k \in DOMAIN last'.arg.d :
                Get(stores_config'[last'.m].stores, last'.store_id)[k] = last'.arg.d[k]
          /\ last'.io = "open_fails" => fs' = fs
          /\ last'.io = "write_fails" =>
                /\ fs'["stores_config.json"].kind = "partial"
                /\ fs'["custom_config.json"] = fs["custom_config.json"]
          /\ fs'["stores_config.json"] = JsonFile(stores_config'[last'.m])
                => stores_config' = stores_config]_vars

\* A registration reported success, its store is in the registry and the file
\* it was to be written to is cut short.
FailedWriteCutShort ==
    /\ last.op = "add_new_store"
    /\ last.ret = TRUE
    /\ last.io = "write_fails"
    /\ last.store_id \in Keys(LastStores)
    /\ fs["stores_config.json"].kind = "partial"

\* Both processes run, on managers that loaded the same configuration file.
SameFileLoaded ==
    /\ alive = Managers
    /\ config_path[1] = config_path[2]

\* C12: with two processes whose managers loaded the same configuration
\* file, after a registration whose write succeeded that file is the whole
\* registry of the process that wrote it.
C12_FileIsLastWritersRegistry ==
    (/\ SameFileLoaded
     /\ last.op = "add_new_store"
     /\ last.ret = TRUE
     /\ last.io = "ok")
        => fs[config_path[last.m]] = JsonFile(stores_config[last.m])

\* The same for the file _save_config does write: it is the whole registry
\* of the process that wrote last, whatever the other process holds.
WrittenFileIsLastWritersRegistry ==
    (/\ last.op = "add_new_store"
     /\ last.ret = TRUE
     /\ last.io = "ok")
        => fs["stores_config.json"] = JsonFile(stores_config[last.m])

\* A lost update: both processes loaded stores_config.json, each registered a
\* store the other did not, both writes succeeded, and the file lacks the
\* store of the process that wrote first.
LostUpdate ==
    /\ SameFileLoaded
    /\ config_path[1] = "stores_config.json"
    /\ last.op = "add_new_store"
    /\ last.ret = TRUE
    /\ last.io = "ok"
    /\ \E other \in Managers \ {last.m} :
          \E lost \in Keys(stores_config[other].stores) :
              /\ lost \notin Keys(stores_config[last.m].stores)
              /\ lost \notin Keys(fs["stores_config.json"].data.stores)
              /\ last.store_id \notin Keys(stores_config[other].stores)

\* C13: in a registry that started as the default configuration, every
\* store's seasonal_multipliers defines winter, spring, summer and autumn.
C13_AllSeasonsDefined ==
    \A m \in alive :
        config_path[m] = "stores_config.json" =>
            \A i \in 1..Len(stores_config[m].stores) :
                LET cfg == stores_config[m].stores[i].cfg IN
                /\ "seasonal_multipliers" \in DOMAIN cfg
                /\ {"winter", "spring", "summer", "autumn"}
                      \subseteq DOMAIN cfg.seasonal_multipliers

\* What add_new_store does ensure: every store of such a registry has a
\* seasonal_multipliers table, and a store registered without one has the
\* four seasons of default_values.
SeasonalTablePresent ==
    \A m \in alive :
        config_path[m] = "stores_config.json" =>
            \A i \in 1..Len(stores_config[m].stores) :
                "seasonal_multipliers" \in DOMAIN stores_config[m].stores[i].cfg

\* C14: stores are never deleted: a store id that is in a manager's registry
\* before a call is in it after the call, whatever the call.
C14_StoresNeverDeleted ==
    [][\A m \in alive :
          Keys(stores_config[m].stores) \subseteq Keys(stores_config'[m].stores)]_vars

\* C14 witness: a store has been registered over the default registry and the
\* three stores that were there are all still there.
C14_Witness ==
    /\ last.op = "add_new_store"
    /\ last.ret = TRUE
    /\ last.store_id = "almaty_4"
    /\ Keys(LastStores) = {"almaty_1", "almaty_2", "almaty_3", "almaty_4"}

\* The place of row k of table t in the registry `stores`: the index of its
\* store, its day offset and the index of its SKU in the store's assortment.
RowPlace(stores, t, k) ==
    LET i == IndexOf(stores, t[k].store_id)
        skus == Skus(stores[i].cfg)
    IN  <<i, t[k].day, CHOOSE j \in 1..Len(skus) : skus[j] = t[k].sku>>

LexLess(a, b) ==
    \/ a[1] < b[1]
    \/ a[1] = b[1] /\ a[2] < b[2]
    \/ a[1] = b[1] /\ a[2] = b[2] /\ a[3] < b[3]

\* Every (store, day, SKU) of the stores that are active (no 'active' key
\* counts as active).
ActivePlaces(stores, days) ==
    UNION {{<<i, d, j>> : d \in 0..(days - 1), j \in 1..Len(Skus(stores[i].cfg))} :
           i \in {n \in 1..Len(stores) :
                     IF "active" \in DOMAIN stores[n].cfg
                     THEN stores[n].cfg.active ELSE TRUE}}

\* C16: get_network_forecast(days) returns one row for every day and SKU of
\* every active store and no other row, the rows ordered by the store's place
\* in the registry, then by day, then by the SKU's place in the assortment;
\* their number is days times the sum of the active stores' assortment sizes.
C16_NetworkIsConcatenation ==
    (last.op = "get_network_forecast" /\ last.raised = "") =>
        /\ \A k \in 1..Len(last.rows) :
              /\ last.rows[k].store_id \in Keys(LastStores)
              /\ last.rows[k].sku \in RowsOf(Skus(Get(LastStores, last.rows[k].store_id)))
        /\ {RowPlace(LastStores, last.rows, k) : k \in 1..Len(last.rows)}
              = ActivePlaces(LastStores, last.days)
        /\ \A k \in 1..(Len(last.rows) - 1) :
              LexLess(RowPlace(LastStores, last.rows, k),
                      RowPlace(LastStores, last.rows, k + 1))
        /\ Len(last.rows) = Cardinality(ActivePlaces(LastStores, last.days))

\* C16 witness: a network forecast over two days of a registry whose first
\* store is closed and whose other two stores are open: 2 x (6 + 6) rows.
C16_Witness ==
    /\ last.op = "get_network_forecast"
    /\ last.raised = ""
    /\ last.days = 2
    /\ Len(LastStores) = 3
    /\ "active" \in DOMAIN LastStores[1].cfg
    /\ LastStores[1].cfg.active = FALSE
    /\ Len(last.rows) = 24
    /\ last.rows[1].store_id = LastStores[2].id
    /\ last.rows[24].store_id = LastStores[3].id

\* The closed range of base demands a store type is given.
ClosedRange(type) ==
    IF type = "premium" THEN 15..40
    ELSE IF type = "business" THEN 10..35
    ELSE 25..60

\* The base demands np.random.randint can give a store, over every position
\* of the generator's stream.
DrawableBaseDemands(cfg) ==
    LET r == base_demand_range(cfg)
    IN  {RandInt(r[1], r[2], pos) : pos \in 0..1008}

\* C17: the base demand of every row lies in the closed range of its store's
\* type, premium 15..40, mass_market 25..60, business 10..35, and every
\* integer of that range, both ends included, can be drawn.
C17_ClosedRange ==
    (LastIsForecast /\ last.raised = "") =>
        \A k \in 1..Len(last.rows) :
            LET cfg == Get(LastStores, last.rows[k].store_id) IN
            /\ last.rows[k].base_demand \in ClosedRange(cfg.type)
            /\ DrawableBaseDemands(cfg) = ClosedRange(cfg.type)

\* What the code does: every integer of the range but its upper end can be
\* drawn, and no other.
UpperEndExcluded ==
    (LastIsForecast /\ last.raised = "") =>
        \A k \in 1..Len(last.rows) :
            LET cfg == Get(LastStores, last.rows[k].store_id) IN
            /\ last.rows[k].base_demand \in DrawableBaseDemands(cfg)
            /\ DrawableBaseDemands(cfg)
                  = {v \in ClosedRange(cfg.type) : v + 1 \in ClosedRange(cfg.type)}

\* The season of a day of the year (365 days): December, January, February
\* are winter; March to May spring; June to August summer; the rest autumn.
SeasonOfDay(doy) ==
    IF doy <= 59 \/ doy >= 335 THEN "winter"
    ELSE IF doy <= 151 THEN "spring"
    ELSE IF doy <= 243 THEN "summer"
    ELSE "autumn"

RowSeason(row) == SeasonOfDay(((row.date - 1) % 365) + 1)

RowHoliday(row) ==
    LET doy == ((row.date - 1) % 365) + 1 IN
    IF doy = 67 THEN "WOMENS_DAY"
    ELSE IF doy = 45 THEN "VALENTINES"
    ELSE IF doy = 80 THEN "NAURYZ"
    ELSE ""

MissingCodeIsOne ==
    /\ LastIsForecast
    /\ last.raised = ""
    /\ \E k \in 1..Len(last.rows) :
          /\ last.rows[k].date = 80
          /\ "NAURYZ" \notin DOMAIN Get(LastStores, last.rows[k].store_id).holiday_multipliers
          /\ last.rows[k].holiday_factor = 10

\* The product base_demand x seasonal x weekend x holiday x weather of a row,
\* the factors as recorded in the row and the weekend factor 1.3 on a Saturday
\* or Sunday (1 January 2026 is a Thursday), scaled by 10 x 10 x 10 x 100.
RowProduct(row) ==
    row.base_demand * row.seasonal_factor
        * (IF (row.date + 2) % 7 \in {5, 6} THEN 13 ELSE 10)
        * row.holiday_factor * row.weather_factor

\* C20: the demand of every row is the floor of the product of its base
\* demand and its seasonal, weekend, holiday and weather factors.
C20_DemandIsFloor ==
    (LastIsForecast /\ last.raised = "") =>
        \A k \in 1..Len(last.rows) :
            last.rows[k].demand = RowProduct(last.rows[k]) \div 100000

\* What the code computes: the product cut toward zero, which is its floor
\* when the product is not negative.
DemandIsTruncation ==
    (LastIsForecast /\ last.raised = "") =>
        \A k \in 1..Len(last.rows) :
            LET p == RowProduct(last.rows[k]) IN
            last.rows[k].demand =
                IF p >= 0 THEN p \div 100000 ELSE 0 - ((0 - p) \div 100000)

\* A Saturday row of a store with a holiday and a seasonal multiplier other
\* than 1.0 (8 March 2026 is a Sunday).
WeekendHolidayRow ==
    /\ LastIsForecast
    /\ last.raised = ""
    /\ \E k \in 1..Len(last.rows) :
          /\ (last.rows[k].date + 2) % 7 = 6
          /\ last.rows[k].holiday_factor > 10
          /\ last.rows[k].seasonal_factor # 10
          /\ last.rows[k].demand > 0

\* demand x safety_stock_ratio - current_stock of a row, in tenths, with the
\* store's ratio and 1.2 for a store that defines none.
RowShortfall(row, cfg) ==
    row.demand * (IF "safety_stock_ratio" \in DOMAIN cfg
                  THEN cfg.safety_stock_ratio ELSE 12)
        - row.current_stock * 10

\* C21: the recommended purchase of every row is max(0, floor(demand x
\* safety_stock_ratio - current_stock)): the code's cut toward zero gives what
\* the floor gives, also where the difference is negative.
C21_PurchaseIsFloor ==
    (LastIsForecast /\ last.raised = "") =>
        \A k \in 1..Len(last.rows) :
            LET floor == RowShortfall(last.rows[k],
                                      Get(LastStores, last.rows[k].store_id)) \div 10
            IN  last.rows[k].recommended_purchase = (IF floor > 0 THEN floor ELSE 0)

\* C21 witness: a forecast with a row whose difference is negative and not
\* whole, where floor and cut toward zero differ and the purchase is 0, and a
\* row with a positive purchase.
C21_Witness ==
    /\ LastIsForecast
    /\ last.raised = ""
    /\ \E j, k \in 1..Len(last.rows) :
          LET x == RowShortfall(last.rows[j], Get(LastStores, last.rows[j].store_id))
          IN  /\ x < 0
              /\ x % 10 # 0
              /\ last.rows[j].recommended_purchase = 0
              /\ last.rows[k].recommended_purchase > 0

\* The rows of table t on `date` whose (date, SKU) group sums to 50 or more.
QualifyingRows(t, date) ==
    {k \in 1..Len(t) : t[k].date = date /\ GroupPurchase(t, date, t[k].sku) >= 50}

\* C22: for every date of the result of get_consolidation_opportunities,
\* total_volume is the purchase summed over the rows of that date whose
\* (date, SKU) group sums to 50 or more, and potential_savings is 0.05 times
\* total_volume (kept in hundredths).
C22_TotalVolume ==
    (last.op = "get_consolidation_opportunities" /\ last.raised = "") =>
        \A date \in DOMAIN last.consolidation :
            /\ last.consolidation[date].total_volume
                  = SumRows(last.rows, QualifyingRows(last.rows, date))
            /\ last.consolidation[date].potential_savings
                  = 5 * SumRows(last.rows, QualifyingRows(last.rows, date))

\* C22 witness: a reported date has two groups of 50 or more and a group
\* below 50 with a purchase that is not 0, which is left out of the total.
C22_Witness ==
    /\ last.op = "get_consolidation_opportunities"
    /\ last.raised = ""
    /\ \E date \in DOMAIN last.consolidation :
          /\ \E j, k \in QualifyingRows(last.rows, date) :
                last.rows[j].sku # last.rows[k].sku
          /\ \E k \in 1..Len(last.rows) :
                /\ last.rows[k].date = date
                /\ GroupPurchase(last.rows, date, last.rows[k].sku) < 50
                /\ GroupPurchase(last.rows, date, last.rows[k].sku) > 0
          /\ last.consolidation[date].total_volume >= 100

\* The SKUs of table t whose group on `date` sums to 50 or more.
QualifyingSkus(t, date) == {t[k].sku : k \in QualifyingRows(t, date)}

\* C23: for every date of the result, top_items has min(5, number of
\* qualifying groups of the date) entries, each a different qualifying SKU of
\* that date; no qualifying SKU left out sums to more than one that is in;
\* each entry's store count is the number of rows of its (date, SKU) group.
C23_TopItems ==
    (last.op = "get_consolidation_opportunities" /\ last.raised = "") =>
        \A date \in DOMAIN last.consolidation :
            LET items == last.consolidation[date].top_items
                qualifying == QualifyingSkus(last.rows, date)
                included == {items[j].sku : j \in 1..Len(items)}
            IN  /\ Len(items) = (IF Cardinality(qualifying) < 5
                                 THEN Cardinality(qualifying) ELSE 5)
                /\ Cardinality(included) = Len(items)
                /\ included \subseteq qualifying
                /\ \A j \in 1..Len(items) : items[j].date = date
                /\ \A left \in qualifying \ included : \A kept \in included :
                      GroupPurchase(last.rows, date, left)
                         <= GroupPurchase(last.rows, date, kept)
                /\ \A j \in 1..Len(items) :
                      items[j].store_count =
                         Cardinality({k \in 1..Len(last.rows) :
                                         /\ last.rows[k].date = date
                                         /\ last.rows[k].sku = items[j].sku})

\* C23 witness: a date with more than five qualifying groups, five of them
\* reported, one of the reported groups made of the rows of two stores, and a
\* group left out that comes before a reported one in SKU order.
C23_Witness ==
    /\ last.op = "get_consolidation_opportunities"
    /\ last.raised = ""
    /\ \E date \in DOMAIN last.consolidation :
          LET items == last.consolidation[date].top_items
              included == {items[j].sku : j \in 1..Len(items)}
          IN  /\ Cardinality(QualifyingSkus(last.rows, date)) > 5
              /\ Len(items) = 5
              /\ \E j \in 1..5 : items[j].store_count = 2
              /\ \E left \in QualifyingSkus(last.rows, date) \ included :
                    \E kept \in included : SkuRank(left) < SkuRank(kept)

\* C24: get_store_forecast, get_network_forecast,
\* get_consolidation_opportunities and get_performance_metrics leave every
\* registry and every file as they were; a step that changes the registry of
\* a constructed manager is an add_new_store.
C24_QueriesChangeNothing ==
    [][/\ (/\ last' # last
           /\ last'.op \in {"get_store_forecast", "get_network_forecast",
                            "get_consolidation_opportunities",
                            "get_performance_metrics"})
              => (stores_config' = stores_config /\ fs' = fs)
       /\ \A m \in alive :
             stores_config'[m] # stores_config[m] => last'.op = "add_new_store"]_vars

\* C24 witness: a forecast of a store registered earlier has been returned,
\* with the registry holding that store and the file holding the registry.
C24_Witness ==
    /\ last.op = "get_store_forecast"
    /\ last.store_id = "almaty_4"
    /\ last.raised = ""
    /\ Len(last.rows) > 0
    /\ adds = 1
    /\ fs["stores_config.json"] = JsonFile(stores_config[last.m])

\* C25: train_model with an algorithm other than linear_regression,
\* decision_tree, random_forest and neural_network raises its
\* unsupported-algorithm error and leaves models and training_history as they
\* were.
C25_UnsupportedAlgorithm ==
    [][(/\ trainer'.last.op = "train_model"
        /\ trainer'.last.algorithm \notin {"linear_regression", "decision_tree",
                                           "random_forest", "neural_network"})
          => /\ trainer'.last.raised = "ValueError"
             /\ trainer'.models = trainer.models
             /\ trainer'.training_history = trainer.training_history
             /\ \A a \in {"linear_regression", "decision_tree",
                           "random_forest", "neural_network"} :
                   _train_algorithm(a) = ""]_vars

\* C25 witness: train_model has raised for an unsupported algorithm on a
\* trainer that holds trained models.
C25_Witness ==
    /\ trainer.last.op = "train_model"
    /\ trainer.last.algorithm = "xgboost"
    /\ trainer.last.raised = "ValueError"
    /\ Len(trainer.models) = 2
    /\ Len(trainer.training_history) = 2

\* The accuracies of the trained models.
Accuracies == {trainer.models[i].cfg.metrics.accuracy : i \in 1..Len(trainer.models)}

\* C26: when a model has been trained, compare_models returns the name of a
\* trained model whose accuracy is the largest of all; it returns None only
\* when no model has been trained.
C26_BestModel ==
    trainer.last.op = "compare_models" =>
        IF Len(trainer.models) = 0
        THEN trainer.last.best = ""
        ELSE /\ trainer.last.best \in Keys(trainer.models)
             /\ \A a \in Accuracies :
                   a <= Get(trainer.models, trainer.last.best).metrics.accuracy

\* What compare_models does: None also when every trained model has accuracy
\* 0; otherwise the first model, in the order of training, of the largest
\* accuracy.
BestModelOrNone ==
    trainer.last.op = "compare_models" =>
        IF Accuracies \subseteq {0}
        THEN trainer.last.best = ""
        ELSE /\ trainer.last.best \in Keys(trainer.models)
             /\ \A a \in Accuracies :
                   a <= Get(trainer.models, trainer.last.best).metrics.accuracy

\* compare_models has picked the second of two models.
SecondModelIsBest ==
    /\ trainer.last.op = "compare_models"
    /\ Len(trainer.models) = 2
    /\ trainer.last.best = trainer.models[2].id

\* The entries of training_history are in call order, every trained
\* algorithm's model is its latest entry, and the sizes of every entry are
\* floor(0.8 n), n less that, and min(100, test_samples).
HistoryInOrder ==
    LET h == trainer.training_history IN
    /\ \A i, j \in 1..Len(h) : i < j => h[i].training_date < h[j].training_date
    /\ Keys(trainer.models) = {h[i].algorithm : i \in 1..Len(h)}
    /\ \A i \in 1..Len(h) :
          (\A j \in (i + 1)..Len(h) : h[j].algorithm # h[i].algorithm)
             => Get(trainer.models, h[i].algorithm) = h[i]
    /\ \A i \in 1..Len(h) :
          /\ h[i].training_samples
                = (8 * (h[i].training_samples + h[i].test_samples)) \div 10
          /\ h[i].metrics.sample_size
                = (IF h[i].test_samples < 100 THEN h[i].test_samples ELSE 100)

\* A training that went through: train_model returned, or retrain_model got
\* as far as saving.
TrainedStep ==
    \/ trainer'.last.op = "train_model" /\ trainer'.last.raised = ""
    \/ trainer'.last.op = "retrain_model" /\ trainer'.last.raised \in {"", "OSError"}

\* C27: training_history gets one entry, at its end, at every training that
\* goes through and changes at no other call; its entries are in call order,
\* every algorithm's stored model is the latest entry of that algorithm, and
\* in every entry training_samples = floor(0.8 n), test_samples = n -
\* training_samples and sample_size = min(100, test_samples).
C27_TrainingHistory ==
    [][/\ HistoryInOrder'
       /\ IF TrainedStep
          THEN /\ Len(trainer'.training_history) = Len(trainer.training_history) + 1
               /\ SubSeq(trainer'.training_history, 1, Len(trainer.training_history))
                     = trainer.training_history
          ELSE trainer'.training_history = trainer.training_history]_vars

\* C27 witness: an algorithm trained twice, on 1 record and then on 1620; its
\* stored model is the second entry, of 1296 and 324 samples, 100 evaluated.
C27_Witness ==
    /\ Len(trainer.training_history) = 2
    /\ Len(trainer.models) = 1
    /\ trainer.training_history[1].training_samples = 0
    /\ trainer.training_history[1].test_samples = 1
    /\ trainer.models[1].cfg = trainer.training_history[2]
    /\ trainer.training_history[2].training_samples = 1296
    /\ trainer.training_history[2].test_samples = 324
    /\ trainer.training_history[2].metrics.sample_size = 100
    /\ trainer.training_history[1] # trainer.training_history[2]

\* C28: for a table with the four required columns, the table
\* validate_sales_data returns has no row with a missing date, store or SKU,
\* no negative and no missing quantity, and at most one row per (date, store,
\* SKU), that row being the last row of the input with that key; a table that
\* lacks a required column is returned as it is with exactly one message and
\* no counter changed.
C28_ValidatedTable ==
    [][(handler'.last.op = "validate_sales_data" /\ handler'.calls = handler.calls + 1) =>
          LET input == handler'.last.table
              out == handler'.last.df
          IN  IF input.columns
              THEN /\ \A k \in 1..Len(out) :
                         /\ out[k].date # 0
                         /\ out[k].store # "<NA>"
                         /\ out[k].sku # "<NA>"
                         /\ ~out[k].nan
                         /\ out[k].qty >= 0
                         /\ \E i \in 1..Len(input.rows) :
                               /\ input.rows[i].pos = out[k].pos
                               /\ SameKey(input.rows[i], out[k])
                               /\ \A j \in (i + 1)..Len(input.rows) :
                                     ~SameKey(input.rows[j], input.rows[i])
                   /\ \A k, l \in 1..Len(out) : SameKey(out[k], out[l]) => k = l
              ELSE /\ out = input.rows
                   /\ Len(handler'.last.errors) = 1
                   /\ handler'.error_stats = handler.error_stats]_vars

\* C28 witness: a table of three rows, the first and the last of one key, the
\* second without a date, the last with a negative quantity; the table
\* returned has the last row alone, its quantity 0.
C28_Witness ==
    /\ handler.last.op = "validate_sales_data"
    /\ handler.last.table.columns
    /\ Len(handler.last.table.rows) = 3
    /\ SameKey(handler.last.table.rows[1], handler.last.table.rows[3])
    /\ handler.last.table.rows[2].date = 0
    /\ handler.last.table.rows[3].qty < 0
    /\ Len(handler.last.df) = 1
    /\ handler.last.df[1].pos = 3
    /\ handler.last.df[1].qty = 0

\* A table lacking a required column has come back as it was, with one
\* message.
LackingColumnReturned ==
    /\ handler.last.op = "validate_sales_data"
    /\ ~handler.last.table.columns
    /\ Len(handler.last.table.rows) = 1
    /\ handler.last.df = handler.last.table.rows
    /\ handler.last.errors = <<"missing_columns">>

\* The five counters of error_stats.
Counters == {"missing_data", "new_sku", "anomaly_high", "anomaly_low", "integration_errors"}

\* The step is a call of `op` that went through.
HandlerCalled(op) == handler'.last.op = op /\ handler'.calls = handler.calls + 1

\* C30: over any sequence of validate_sales_data, validate_forecast_output,
\* handle_new_sku and handle_integration_error calls no counter of error_stats
\* decreases; handle_new_sku and handle_integration_error raise their own
\* counter by 1 and no other; get_error_report leaves the counters as they
\* are and returns total_errors equal to the sum of the five counters and
\* three rates that are each in [0, 1], sum to at most 1 and are 0 when
\* nothing was counted.
C30_ErrorStats ==
    [][/\ \A c \in Counters : handler'.error_stats[c] >= handler.error_stats[c]
       /\ HandlerCalled("handle_new_sku") =>
             /\ handler'.error_stats.new_sku = handler.error_stats.new_sku + 1
             /\ \A c \in Counters \ {"new_sku"} :
                   handler'.error_stats[c] = handler.error_stats[c]
       /\ HandlerCalled("handle_integration_error") =>
             /\ handler'.error_stats.integration_errors
                   = handler.error_stats.integration_errors + 1
             /\ \A c \in Counters \ {"integration_errors"} :
                   handler'.error_stats[c] = handler.error_stats[c]
       /\ handler'.last.op = "get_error_report" =>
             LET report == handler'.last.report
                 stats == handler.error_stats
             IN  /\ handler'.error_stats = stats
                 /\ report.total_errors
                       = stats.missing_data + stats.new_sku + stats.anomaly_high
                            + stats.anomaly_low + stats.integration_errors
                 /\ report.denominator > 0
                 /\ \A rate \in {report.missing_data_rate, report.anomaly_rate,
                                 report.integration_error_rate} :
                       /\ 0 <= rate
                       /\ rate <= report.denominator
                       /\ report.total_errors = 0 => rate = 0
                 /\ report.missing_data_rate + report.anomaly_rate
                       + report.integration_error_rate <= report.denominator]_vars

\* C30 witness: a report made after a validation that counted missing data
\* and anomalies and after a new SKU: the total is more than the three rates
\* account for.
C30_Witness ==
    /\ handler.last.op = "get_error_report"
    /\ handler.calls = 2
    /\ handler.error_stats.new_sku = 1
    /\ handler.error_stats.missing_data > 0
    /\ handler.error_stats.anomaly_low > 0
    /\ handler.last.report.total_errors
          > handler.last.report.missing_data_rate + handler.last.report.anomaly_rate
               + handler.last.report.integration_error_rate

\* ---- C29
\* The positions a correction can be, or has been, saved for.
SelectablePositions ==
    DOMAIN app.forecast_data
        \cup {app.corrections[i].saved_for : i \in 1..Len(app.corrections)}

\* Two different positions never share a key.
KeysAreInjective ==
    \A a, b \in SelectablePositions :
        a # b => correction_key(a[1], a[2], a[3]) # correction_key(b[1], b[2], b[3])

\* What the history view recovers: the date, the store's name up to its
\* first underscore, and the rest of the store's name joined to the SKU.
HistoryCutsStoreName ==
    /\ app.shown # "ValueError"
    /\ Len(app.shown) = Len(app.corrections)
    /\ \A i \in 1..Len(app.corrections) :
           LET saved_for == app.corrections[i].saved_for
           IN  /\ app.shown[i].date = saved_for[1]
               /\ app.shown[i].store = <<saved_for[2][1]>>
               /\ app.shown[i].sku = Tail(saved_for[2]) \o saved_for[3]

\* A correction for the first default store is in the history.
CorrectionForDefaultStoreShown ==
    /\ app.run = "saved"
    /\ \E i \in 1..Len(app.corrections) :
           app.corrections[i].saved_for[2] = <<"Almaty", "1">>

\* C29: every line of the corrections history shows the date, the store and
\* the SKU its correction was saved for, recovered from the key
\* date_store_SKU by splitting at the first two underscores, and two
\* different (date, store, SKU) positions never share a key.
C29_KeyRoundTrip ==
    /\ app.shown # "ValueError"
    /\ Len(app.shown) = Len(app.corrections)
    /\ \A i \in 1..Len(app.corrections) :
           <<app.shown[i].date, app.shown[i].store, app.shown[i].sku>>
               = app.corrections[i].saved_for
    /\ KeysAreInjective

====
